---- MODULE Spec2Model ----
(***************************************************************************)
(* Secure-JWT (NeaByteLab/Secure-JWT): the token handler SecureJWT         *)
(* (sign / verify / verifyStrict / decode), its validation pipeline, the   *)
(* key derivation of the Algorithms factory and the bounded TTL cache      *)
(* (Cache<T>) that memoises verify and decode results per raw token        *)
(* string.                                                                 *)
(*                                                                         *)
(* Time is the wall clock Date.now() in milliseconds.  One call of an      *)
(* operation is one step taken at a single clock reading.                  *)
(***************************************************************************)
EXTENDS Integers, Sequences, FiniteSets, TLC

VARIABLES
    now,      \* Date.now(), in ms
    cfg,      \* handler id -> the fields fixed by the constructor
    sealed,   \* what the AEAD primitive has encrypted so far (ghost)
    wire,     \* token strings in flight: issued by sign, or forged from them
    vcache,   \* handler id -> #verifyCache
    pcache,   \* handler id -> #payloadCache
    cache,    \* a stand-alone Cache instance (the Cache specification)
    calls,    \* number of calls made so far
    last      \* the outcome of the most recent call

vars == <<now, cfg, sealed, wire, vcache, pcache, cache, calls, last>>

(***************************************************************************)
(* Bounds of the model.                                                    *)
(***************************************************************************)
MaxNow == 3999        \* the clock stops here
MaxCacheNow == 2000   \* ... and here in the Cache specification
MaxCalls == 3         \* calls made in one behaviour
MaxCacheCalls == 4    \* ... and in one behaviour of the Cache specification
MaxWire == 3          \* distinct token strings the callers hold
MaxSealed == 1        \* encryptions performed
MaxTamperPos == 1     \* hex positions 1..MaxTamperPos can be tampered with
\* Cache.constructor floors maxSize at 1000 (Core.ts:140); the model scales
\* that floor down so that the capacity boundary is reached.
MinMaxSize == 2
MaxBuildCalls == 1    \* constructor and parser calls in one behaviour

(***************************************************************************)
(* Program constants.                                                      *)
(***************************************************************************)
MsPerSec == 1000
StartNow == MsPerSec  \* clock reading in the initial state: one second after the epoch
YearSec == 365 * 24 * 60 * 60
MinTTL == 1
MaxPayloadBytes == 8192
MinTokenLen == 10
MaxTokenLen == 100000
KeyLen == 32
SaltLen == 32
TagHexLen == 32
MinIvHexLen == 24
MaxIvHexLen == 32
CapacityFloor == 1000
DefaultCached == 1000
MinCached == 1
MaxCached == 10000
MinSecretLen == 8
MaxSecretLen == 255

Max(a, b) == IF a >= b THEN a ELSE b

\* Math.floor(Date.now() / 1000)
NowSec(t) == t \div MsPerSec

\* The clock is read at these instants only: the first milliseconds after
\* StartNow, the first millisecond of every second, and its last one.
Phases == {0, 999}
Instants == {t \in StartNow..MaxNow : t <= StartNow + 2 \/ (t % MsPerSec) \in Phases}

(***************************************************************************)
(* Strings.  A token string is described by what the code inspects of it:  *)
(* whether it matches the base64 pattern, its length and padding, and what *)
(* base64-decoding and JSON.parse make of it.  All token strings have the  *)
(* same record shape; fields that do not apply hold a default.             *)
(***************************************************************************)
Fields == {"encrypted", "iv", "tag", "exp", "iat", "version"}

NoVersion == <<>>

\* a string that is not the base64 of an envelope
Str(alpha, len, pad, j, present) ==
    [alpha |-> alpha, len |-> len, pad |-> pad, j |-> j,
     present |-> present, badtype |-> {},
     encrypted |-> <<>>, iv |-> <<>>, tag |-> <<>>,
     exp |-> 0, iat |-> 0, version |-> NoVersion]

EmptyStr == Str(TRUE, 0, 0, "unparseable", {})         \* ''
NotBase64 == Str(FALSE, 11, 0, "unparseable", {})      \* 'not-base64!'
NotJSON == Str(TRUE, 12, 0, "unparseable", {})         \* 'abcdefghijkl'
NoFields == Str(TRUE, 32, 0, "object", {})             \* base64('{"invalid": "structure"}')

Garbage == {EmptyStr, NotBase64, NotJSON, NoFields}

(***************************************************************************)
(* Hex strings and byte buffers.  A hex string is a sequence of            *)
(* characters, a buffer a sequence of bytes.                               *)
(***************************************************************************)
HexLower == <<"0", "1", "2", "3", "4", "5", "6", "7", "8", "9",
              "a", "b", "c", "d", "e", "f">>
HexUpper == <<"A", "B", "C", "D", "E", "F">>

\* the value of each hex digit, in either letter case
HexValue ==
    ("0" :> 0) @@ ("1" :> 1) @@ ("2" :> 2) @@ ("3" :> 3) @@ ("4" :> 4) @@ ("5" :> 5) @@
    ("6" :> 6) @@ ("7" :> 7) @@ ("8" :> 8) @@ ("9" :> 9) @@
    ("a" :> 10) @@ ("b" :> 11) @@ ("c" :> 12) @@ ("d" :> 13) @@ ("e" :> 14) @@ ("f" :> 15) @@
    ("A" :> 10) @@ ("B" :> 11) @@ ("C" :> 12) @@ ("D" :> 13) @@ ("E" :> 14) @@ ("F" :> 15)

\* the value of a hex digit, -1 for any other character
NibbleOf(ch) == IF ch \in DOMAIN HexValue THEN HexValue[ch] ELSE -1

IsHexChar(ch) == NibbleOf(ch) >= 0

\* buf.toString('hex'): two lower-case digits per byte
HexEncode(bytes) ==
    [i \in 1..(2 * Len(bytes)) |->
        IF i % 2 = 1 THEN HexLower[(bytes[(i + 1) \div 2] \div 16) + 1]
        ELSE HexLower[(bytes[i \div 2] % 16) + 1]]

\* number of leading pairs of hex digits
RECURSIVE HexPairs(_, _)
HexPairs(str, n) ==
    IF 2 * n + 2 <= Len(str) /\ IsHexChar(str[2 * n + 1]) /\ IsHexChar(str[2 * n + 2])
    THEN HexPairs(str, n + 1)
    ELSE n

\* Buffer.from(str, 'hex'): decodes pairs of digits, of either case, and stops
\* at the first pair that is not hex
HexDecode(str) ==
    [i \in 1..HexPairs(str, 0) |->
        16 * NibbleOf(str[2 * i - 1]) + NibbleOf(str[2 * i])]

\* /^[0-9a-fA-F]{lo,hi}$/
MatchesHex(str, lo, hi) ==
    /\ Len(str) >= lo
    /\ Len(str) <= hi
    /\ \A i \in 1..Len(str) : IsHexChar(str[i])

\* number of decimal digits of a natural number
RECURSIVE Digits(_)
Digits(n) == IF n < 10 THEN 1 ELSE 1 + Digits(n \div 10)

RECURSIVE SumDigits(_, _)
SumDigits(v, i) == IF i > Len(v) THEN 0 ELSE Digits(v[i]) + SumDigits(v, i + 1)

\* A version 'x.y.z' is the sequence of its numbers; this is its length as a
\* string.
VersionLen(v) == IF Len(v) = 0 THEN 0 ELSE SumDigits(v, 1) + Len(v) - 1

(***************************************************************************)
(* The token envelope and its wire form                                    *)
(* base64(JSON({encrypted, iv, tag, exp, iat, version})).                  *)
(***************************************************************************)
\* length of JSON.stringify(tokenData)
EnvelopeJSONLen(enc, iv, tag, exp, iat, version) ==
    60 + Len(enc) + Len(iv) + Len(tag) + Digits(exp) + Digits(iat) + VersionLen(version)

\* Buffer.from(tokenString).toString('base64') of an envelope
EnvToken(enc, iv, tag, exp, iat, version) ==
    LET n == EnvelopeJSONLen(enc, iv, tag, exp, iat, version)
    IN  [alpha |-> TRUE, len |-> 4 * ((n + 2) \div 3), pad |-> (3 - (n % 3)) % 3,
         j |-> "object", present |-> Fields, badtype |-> {},
         encrypted |-> enc, iv |-> iv, tag |-> tag,
         exp |-> exp, iat |-> iat, version |-> version]

(***************************************************************************)
(* Caller data and JSON.  A data value is [t, n]: its type and a number    *)
(* (the value of a number, the length of a string of 'x', the userId of an *)
(* object {userId: n}).                                                    *)
(***************************************************************************)
NoData == [t |-> "undefined", n |-> 0]     \* undefined
Null == [t |-> "null", n |-> 0]
NaN == [t |-> "nan", n |-> 0]
StrOf(n) == [t |-> "string", n |-> n]
\* a string of n 'é': two bytes each in UTF-8
StrOfAccented(n) == [t |-> "accented", n |-> n]
Obj(n) == [t |-> "object", n |-> n]

\* length of JSON.stringify(data), in UTF-8 bytes
DataJSONLen(d) ==
    CASE d.t = "string" -> d.n + 2
      [] d.t = "accented" -> 2 * d.n + 2
      [] d.t = "object" -> 10 + Digits(d.n)
      [] d.t = "number" -> Digits(d.n)
      [] OTHER -> 4

\* JSON.parse(JSON.stringify(data)): NaN is written as null
JSONRoundTrip(d) == IF d.t = "nan" THEN Null ELSE d

\* JSON.stringify(payload): the text, described by what JSON.parse makes of
\* it, its length in bytes, and (src) the value that was serialised
PayloadJSON(data, exp, iat, version) ==
    [j |-> "object", present |-> {"data", "exp", "iat", "version"},
     data |-> JSONRoundTrip(data), exp |-> exp, iat |-> iat, version |-> version,
     src |-> data,
     bytes |-> 36 + DataJSONLen(data) + Digits(exp) + Digits(iat) + VersionLen(version)]

(***************************************************************************)
(* Key derivation (Algorithms) and the AEAD primitive.                     *)
(***************************************************************************)
\* a derivation that leaves the salt out
GetDerivedKeyBasic_SecretOnly(secret, salt) == secret

\* Buffer.concat([salt, Buffer.from(secret, 'utf8')])
GetDerivedKeyBasic(secret, salt) == salt \o secret

\* pbkdf2Sync(secret, salt, 50000, 32, 'sha256'): 32 bytes that depend on
\* the secret and on the salt
GetDerivedKeyPBKDF2(secret, salt) ==
    [i \in 1..KeyLen |->
        (salt[i] + 31 * secret[((i - 1) % Len(secret)) + 1] + i) % 256]

\* SecureJWT.generateSecret
GenerateSecret(keyDerivation, secret, salt) ==
    IF keyDerivation = "pbkdf2" THEN GetDerivedKeyPBKDF2(secret, salt)
    ELSE GetDerivedKeyBasic(secret, salt)

\* this.#secret.subarray(0, 32)
KeyOf(derived) == SubSeq(derived, 1, IF Len(derived) < KeyLen THEN Len(derived) ELSE KeyLen)

\* getIVLength()
IVLength(algorithm) == IF algorithm = "aes-256-gcm" THEN 16 ELSE 12

\* The primitive is an ideal AEAD: the ciphertext and tag of the n-th
\* encryption are bytes no other encryption yields, and decryption succeeds
\* only on exactly the key, iv, ciphertext, tag and AAD of an encryption.
CipherBytes(n) == <<202, n>>
TagBytes(n) == [i \in 1..16 |-> IF i = 1 THEN 240 + n ELSE 93]

SameInput(s, key, iv, aad, pt) ==
    s.key = key /\ s.iv = iv /\ s.aad = aad /\ s.pt = pt

\* algorithm.encrypt(data, key, iv, version): the encryption, as recorded
Seal(sl, key, iv, aad, pt) ==
    IF \E s \in sl : SameInput(s, key, iv, aad, pt)
    THEN CHOOSE s \in sl : SameInput(s, key, iv, aad, pt)
    ELSE [key |-> key, iv |-> iv, aad |-> aad, pt |-> pt,
          ct |-> CipherBytes(Cardinality(sl) + 1),
          tag |-> TagBytes(Cardinality(sl) + 1)]

\* a primitive that does not authenticate the tag
Opens_NoTag(s, key, enc, iv, tag, aad) ==
    /\ s.key = key
    /\ s.aad = aad
    /\ s.iv = HexDecode(iv)
    /\ s.ct = HexDecode(enc)

Opens(s, key, enc, iv, tag, aad) ==
    /\ s.key = key
    /\ s.aad = aad
    /\ s.iv = HexDecode(iv)
    /\ s.ct = HexDecode(enc)
    /\ s.tag = HexDecode(tag)

\* the encryptions that algorithm.decrypt(tokenEncrypted, key, version)
\* authenticates; it throws when there is none
Matching(sl, key, enc, iv, tag, aad) == {s \in sl : Opens(s, key, enc, iv, tag, aad)}

\* what decrypt leaves with: the error raised, or the plaintext
NoPlain ==
    [j |-> "unparseable", present |-> {}, data |-> NoData, exp |-> 0, iat |-> 0,
     version |-> NoVersion, src |-> NoData, bytes |-> 0]
Raised(err) == [err |-> err, pt |-> NoPlain]
Opened(m) ==
    IF m = {} THEN Raised("DecryptionError")
    ELSE [err |-> "none", pt |-> (CHOOSE s \in m : TRUE).pt]

(***************************************************************************)
(* Cache<T> (Core.ts).  The Map is a sequence of entries in insertion      *)
(* order; an entry is [key, data, createdAt, expiresAt, accessCount].      *)
(***************************************************************************)
NoTTL == <<>>          \* the ttl argument left undefined
TTL(n) == <<n>>

\* a constructor that takes the requested capacity as it is
NewCacheWith_NoFloor(floor, maxSize, defaultTTL) ==
    [maxSize |-> maxSize,
     defaultTTL |-> Max(MinTTL, IF defaultTTL = NoTTL THEN 0 ELSE defaultTTL[1]),
     entries |-> <<>>]

\* new Cache(maxSize, defaultTTL), with the capacity floor as a parameter:
\* this.maxSize = Math.max(floor, maxSize),
\* this.defaultTTL = Math.max(1, defaultTTL ?? 0)
NewCacheWith(floor, maxSize, defaultTTL) ==
    [maxSize |-> Max(floor, maxSize),
     defaultTTL |-> Max(MinTTL, IF defaultTTL = NoTTL THEN 0 ELSE defaultTTL[1]),
     entries |-> <<>>]

\* new Cache(maxSize, defaultTTL) under the scaled capacity floor
NewCache(maxSize, defaultTTL) == NewCacheWith(MinMaxSize, maxSize, defaultTTL)

\* position of key in the Map, 0 when absent
RECURSIVE IndexFrom(_, _, _)
IndexFrom(es, key, i) ==
    IF i > Len(es) THEN 0
    ELSE IF es[i].key = key THEN i
    ELSE IndexFrom(es, key, i + 1)

IndexOf(es, key) == IndexFrom(es, key, 1)

\* Map.delete
RemoveAt(es, i) == SubSeq(es, 1, i - 1) \o SubSeq(es, i + 1, Len(es))

\* score = accessCount + age / 1000, kept as an integer: 1000 * score
Score(e, t) == e.accessCount * MsPerSec + (t - e.createdAt)

\* The scan of evictLRU from entry i on; best is the index of the entry that
\* holds the lowest score so far, 0 while lruScore is still MAX_SAFE_INTEGER.
RECURSIVE LruScan(_, _, _, _)
LruScan(es, t, i, best) ==
    IF i > Len(es) THEN best
    ELSE IF best = 0 \/ Score(es[i], t) < Score(es[best], t)
         THEN LruScan(es, t, i + 1, i)
         ELSE LruScan(es, t, i + 1, best)

\* if (lruKey): the empty string is falsy
Truthy(key) == key.len > 0

EvictLRU(es, t) ==
    LET best == LruScan(es, t, 1, 0)
    IN  IF best > 0 /\ Truthy(es[best].key) THEN RemoveAt(es, best) ELSE es

\* a set that takes a ttl of 0 for no ttl (ttl || this.defaultTTL)
CacheSet_ZeroIsDefault(c, key, value, ttl, t) ==
    LET requestedTTL == IF ttl = NoTTL \/ ttl = TTL(0) THEN c.defaultTTL ELSE ttl[1]
        finalTTL == Max(MinTTL, requestedTTL)
        entry == [key |-> key, data |-> value, expiresAt |-> t + finalTTL,
                  createdAt |-> t, accessCount |-> 1]
        es == IF Len(c.entries) >= c.maxSize /\ IndexOf(c.entries, key) = 0
              THEN EvictLRU(c.entries, t)
              ELSE c.entries
        i == IndexOf(es, key)
    IN  [c EXCEPT !.entries = IF i = 0 THEN Append(es, entry) ELSE [es EXCEPT ![i] = entry]]

\* a set that evicts whenever the cache is at capacity
CacheSet_AlwaysEvicts(c, key, value, ttl, t) ==
    LET requestedTTL == IF ttl = NoTTL THEN c.defaultTTL ELSE ttl[1]
        finalTTL == Max(MinTTL, requestedTTL)
        entry == [key |-> key, data |-> value, expiresAt |-> t + finalTTL,
                  createdAt |-> t, accessCount |-> 1]
        es == IF Len(c.entries) >= c.maxSize
              THEN EvictLRU(c.entries, t)
              ELSE c.entries
        i == IndexOf(es, key)
    IN  [c EXCEPT !.entries = IF i = 0 THEN Append(es, entry)
                              ELSE [es EXCEPT ![i] = entry]]

\* a set that takes the requested ttl as it is
CacheSet_NoFloor(c, key, value, ttl, t) ==
    LET requestedTTL == IF ttl = NoTTL THEN c.defaultTTL ELSE ttl[1]
        entry == [key |-> key, data |-> value, expiresAt |-> t + requestedTTL,
                  createdAt |-> t, accessCount |-> 1]
        es == IF Len(c.entries) >= c.maxSize /\ IndexOf(c.entries, key) = 0
              THEN EvictLRU(c.entries, t)
              ELSE c.entries
        i == IndexOf(es, key)
    IN  [c EXCEPT !.entries = IF i = 0 THEN Append(es, entry)
                              ELSE [es EXCEPT ![i] = entry]]

\* a set whose entry starts with no access counted
CacheSet_CountsFromZero(c, key, value, ttl, t) ==
    LET requestedTTL == IF ttl = NoTTL THEN c.defaultTTL ELSE ttl[1]
        finalTTL == Max(MinTTL, requestedTTL)
        entry == [key |-> key, data |-> value, expiresAt |-> t + finalTTL,
                  createdAt |-> t, accessCount |-> 0]
        es == IF Len(c.entries) >= c.maxSize /\ IndexOf(c.entries, key) = 0
              THEN EvictLRU(c.entries, t)
              ELSE c.entries
        i == IndexOf(es, key)
    IN  [c EXCEPT !.entries = IF i = 0 THEN Append(es, entry)
                              ELSE [es EXCEPT ![i] = entry]]

\* Cache.set(key, value, ttl)
CacheSet(c, key, value, ttl, t) ==
    LET requestedTTL == IF ttl = NoTTL THEN c.defaultTTL ELSE ttl[1]
        finalTTL == Max(MinTTL, requestedTTL)
        entry == [key |-> key, data |-> value, expiresAt |-> t + finalTTL,
                  createdAt |-> t, accessCount |-> 1]
        es == IF Len(c.entries) >= c.maxSize /\ IndexOf(c.entries, key) = 0
              THEN EvictLRU(c.entries, t)
              ELSE c.entries
        i == IndexOf(es, key)
    IN  [c EXCEPT !.entries = IF i = 0 THEN Append(es, entry)
                              ELSE [es EXCEPT ![i] = entry]]

\* a lookup that takes an entry for expired at the instant expiresAt
Lookup_Eager(c, key, t) ==
    LET i == IndexOf(c.entries, key)
    IN  IF i = 0 THEN [cache |-> c, found |-> FALSE, at |-> 0]
        ELSE IF t >= c.entries[i].expiresAt
        THEN [cache |-> [c EXCEPT !.entries = RemoveAt(c.entries, i)], found |-> FALSE, at |-> 0]
        ELSE [cache |-> [c EXCEPT !.entries[i].accessCount = @ + 1], found |-> TRUE, at |-> i]

\* a lookup that reports an expired entry as a miss and leaves it stored
Lookup_KeepsExpired(c, key, t) ==
    LET i == IndexOf(c.entries, key)
    IN  IF i = 0 THEN [cache |-> c, found |-> FALSE, at |-> 0]
        ELSE IF t > c.entries[i].expiresAt
        THEN [cache |-> c, found |-> FALSE, at |-> 0]
        ELSE [cache |-> [c EXCEPT !.entries[i].accessCount = @ + 1],
              found |-> TRUE, at |-> i]

\* a lookup that does not count its hits
Lookup_NoCount(c, key, t) ==
    LET i == IndexOf(c.entries, key)
    IN  IF i = 0 THEN [cache |-> c, found |-> FALSE, at |-> 0]
        ELSE IF t > c.entries[i].expiresAt
        THEN [cache |-> [c EXCEPT !.entries = RemoveAt(c.entries, i)],
              found |-> FALSE, at |-> 0]
        ELSE [cache |-> c, found |-> TRUE, at |-> i]

\* a lookup that first sweeps every expired entry out of the cache
Lookup_Sweeping(c, key, t) ==
    LET i == IndexOf(c.entries, key)
        swept == SelectSeq(c.entries, LAMBDA e : t <= e.expiresAt)
        k == IndexOf(swept, key)
    IN  IF k = 0 THEN [cache |-> [c EXCEPT !.entries = swept], found |-> FALSE, at |-> 0]
        ELSE [cache |-> [c EXCEPT !.entries = [swept EXCEPT ![k].accessCount = @ + 1]],
              found |-> TRUE, at |-> i]

\* The lookup shared by get and has: lazily deletes an expired entry,
\* counts a hit.
Lookup(c, key, t) ==
    LET i == IndexOf(c.entries, key)
    IN  IF i = 0 THEN [cache |-> c, found |-> FALSE, at |-> 0]
        ELSE IF t > c.entries[i].expiresAt
        THEN [cache |-> [c EXCEPT !.entries = RemoveAt(c.entries, i)],
              found |-> FALSE, at |-> 0]
        ELSE [cache |-> [c EXCEPT !.entries[i].accessCount = @ + 1],
              found |-> TRUE, at |-> i]

\* Cache.has(key)
CacheHas(c, key, t) == Lookup(c, key, t)

\* Cache.get(key); the value is c.entries[at].data when found
CacheGet(c, key, t) == Lookup(c, key, t)

(***************************************************************************)
(* The validation pipeline shared by verify, verifyStrict and decode.      *)
(* Stages: 1 token string, 2 envelope parse and field integrity,           *)
(* 3 envelope version, 4 envelope expiry, 5 decryption, 6 payload          *)
(* structure, 7 payload version, 8 payload expiry, 9 timestamp equality.   *)
(***************************************************************************)
\* ErrorHandler.validateToken
ValidateToken(tok) == tok.len # 0

\* ErrorHandler.validateTokenIntegrity
ValidateTokenIntegrity(tok) ==
    /\ tok.alpha
    /\ tok.len >= MinTokenLen
    /\ tok.len <= MaxTokenLen
    /\ tok.pad <= 2
    /\ tok.len % 4 = 0

\* ErrorHandler.validateJSONParse
ValidateJSONParse(text) == text.j # "unparseable"

\* ErrorHandler.validateTokenDataIntegrity, up to its reading of the clock
TokenFieldsValid(tok) ==
    /\ tok.j = "object"
    /\ Fields \subseteq tok.present
    /\ tok.badtype = {}
    /\ Len(tok.encrypted) # 0
    /\ Len(tok.iv) # 0
    /\ Len(tok.tag) # 0
    /\ tok.exp > 0
    /\ tok.iat > 0
    /\ Len(tok.version) # 0
    /\ tok.iat <= tok.exp

\* ErrorHandler.validateTokenDataIntegrity
ValidateTokenDataIntegrity(tok, t) ==
    /\ TokenFieldsValid(tok)
    /\ tok.iat >= NowSec(t) - YearSec
    /\ tok.exp <= NowSec(t) + YearSec

\* isValidTokenData
IsValidTokenData(tok) ==
    /\ tok.j = "object"
    /\ Fields \subseteq tok.present
    /\ tok.badtype = {}

\* isValidPayloadData
IsValidPayloadData(p) ==
    /\ p.j = "object"
    /\ {"data", "exp", "iat", "version"} \subseteq p.present

\* v[i] ?? 0
Part(v, i) == IF i <= Len(v) THEN v[i] ELSE 0

\* ErrorHandler.compareVersions
RECURSIVE CompareFrom(_, _, _)
CompareFrom(v1, v2, i) ==
    IF i > Max(Len(v1), Len(v2)) THEN 0
    ELSE IF Part(v1, i) < Part(v2, i) THEN -1
    ELSE IF Part(v1, i) > Part(v2, i) THEN 1
    ELSE CompareFrom(v1, v2, i + 1)

CompareVersions(v1, v2) == CompareFrom(v1, v2, 1)

\* a version check that lets a newer token version through
ValidateVersionCompatibility_Upgrade(tokenVersion, expectedVersion) ==
    IF tokenVersion = expectedVersion THEN "none"
    ELSE IF CompareVersions(tokenVersion, expectedVersion) < 0 THEN "VERSION_DOWNGRADE_ATTACK"
    ELSE "none"

\* ErrorHandler.validateVersionCompatibility: the message it throws a
\* VersionMismatchError with, "none" when it returns
ValidateVersionCompatibility(tokenVersion, expectedVersion) ==
    IF tokenVersion = expectedVersion THEN "none"
    ELSE IF CompareVersions(tokenVersion, expectedVersion) < 0 THEN "VERSION_DOWNGRADE_ATTACK"
    ELSE IF CompareVersions(tokenVersion, expectedVersion) > 0 THEN "VERSION_UPGRADE_NOT_SUPPORTED"
    ELSE "VERSION_MISMATCH"

\* an expiry check that already rejects during the second exp
Expired_Early(exp, t) == exp <= NowSec(t)

\* an expiry check that still accepts during the second exp + 1
Expired_Late(exp, t) == exp + 1 < NowSec(t)

\* ErrorHandler.checkTokenExpiration throws
Expired(exp, t) == exp < NowSec(t)

\* a timestamp check that compares exp only
ValidateTokenTimestamps_ExpOnly(payloadExp, tokenExp, payloadIat, tokenIat) ==
    payloadExp = tokenExp

\* ErrorHandler.validateTokenTimestamps
ValidateTokenTimestamps(payloadExp, tokenExp, payloadIat, tokenIat) ==
    payloadExp = tokenExp /\ payloadIat = tokenIat

\* ErrorHandler.validateKeyLength
ValidateKeyLength(key) == Len(key) = KeyLen

\* SecureJWT.decrypt.  An EncryptionError of validateKeyLength and any
\* failure of the primitive leave as DecryptionError.
Decrypt(c, sl, tok) ==
    IF ~ValidateKeyLength(KeyOf(c.secret)) THEN Raised("DecryptionError")
    ELSE IF ~MatchesHex(tok.iv, MinIvHexLen, MaxIvHexLen) THEN Raised("DecryptionError")
    ELSE IF ~MatchesHex(tok.tag, TagHexLen, TagHexLen) THEN Raised("DecryptionError")
    ELSE Opened(Matching(sl, KeyOf(c.secret), tok.encrypted, tok.iv, tok.tag, c.version))

Fail(err, stage) ==
    [err |-> err, stage |-> stage, data |-> NoData, exp |-> 0, dec |-> stage >= 5]

\* stages 6..9, on the decrypted payload p
CheckPayload(p, tok, t) ==
    IF ~ValidateJSONParse(p) THEN Fail("ValidationError", 6)
    ELSE IF ~IsValidPayloadData(p) THEN Fail("ValidationError", 6)
    ELSE IF ValidateVersionCompatibility(p.version, tok.version) # "none"
    THEN Fail("VersionMismatchError", 7)
    ELSE IF Expired(p.exp, t) THEN Fail("TokenExpiredError", 8)
    ELSE IF ~ValidateTokenTimestamps(p.exp, tok.exp, p.iat, tok.iat)
    THEN Fail("ValidationError", 9)
    ELSE [err |-> "none", stage |-> 0, data |-> p.data, exp |-> p.exp, dec |-> TRUE]

\* stage 5 and on, d being what decrypt left with
CheckDecrypted(d, tok, t) ==
    IF d.err # "none" THEN Fail(d.err, 5) ELSE CheckPayload(d.pt, tok, t)

\* a pipeline that checks the envelope's expiry before its version
PipelineUnder_ExpiryFirst(c, sl, tok, t, fault) ==
    IF ~ValidateToken(tok) THEN Fail("ValidationError", 1)
    ELSE IF ~ValidateTokenIntegrity(tok) THEN Fail("ValidationError", 1)
    ELSE IF fault = "base64" THEN Fail("ValidationError", 1)
    ELSE IF ~ValidateJSONParse(tok) THEN Fail("ValidationError", 2)
    ELSE IF ~TokenFieldsValid(tok) THEN Fail("ValidationError", 2)
    ELSE IF fault = "clock" THEN Fail("Error", 2)
    ELSE IF ~ValidateTokenDataIntegrity(tok, t) THEN Fail("ValidationError", 2)
    ELSE IF ~IsValidTokenData(tok) THEN Fail("ValidationError", 2)
    ELSE IF Expired(tok.exp, t) THEN Fail("TokenExpiredError", 4)
    ELSE IF ValidateVersionCompatibility(tok.version, c.version) # "none"
    THEN Fail("VersionMismatchError", 3)
    ELSE CheckDecrypted(Decrypt(c, sl, tok), tok, t)

\* A platform call that throws an Error nobody expects of it, for the
\* length of one call of the handler: Buffer.from, or Date.now.  "Error" is
\* the kind of what it throws, which is none of the library's error classes.
NoFault == "none"
Faults == {"base64", "clock"}

\* The pipeline under a fault.  validateBase64Decode catches what
\* Buffer.from throws and raises a ValidationError in its place; the first
\* reading of the clock is that of validateTokenDataIntegrity, once the
\* fields have been checked, and nothing there catches.
PipelineUnder(c, sl, tok, t, fault) ==
    IF ~ValidateToken(tok) THEN Fail("ValidationError", 1)
    ELSE IF ~ValidateTokenIntegrity(tok) THEN Fail("ValidationError", 1)
    ELSE IF fault = "base64" THEN Fail("ValidationError", 1)
    ELSE IF ~ValidateJSONParse(tok) THEN Fail("ValidationError", 2)
    ELSE IF ~TokenFieldsValid(tok) THEN Fail("ValidationError", 2)
    ELSE IF fault = "clock" THEN Fail("Error", 2)
    ELSE IF ~ValidateTokenDataIntegrity(tok, t) THEN Fail("ValidationError", 2)
    ELSE IF ~IsValidTokenData(tok) THEN Fail("ValidationError", 2)
    ELSE IF ValidateVersionCompatibility(tok.version, c.version) # "none"
    THEN Fail("VersionMismatchError", 3)
    ELSE IF Expired(tok.exp, t) THEN Fail("TokenExpiredError", 4)
    ELSE CheckDecrypted(Decrypt(c, sl, tok), tok, t)

\* The pipeline of handler fields c on token string tok at time t: the error
\* it stops with and the stage that raised it, or the payload.
Pipeline(c, sl, tok, t) == PipelineUnder(c, sl, tok, t, NoFault)

(***************************************************************************)
(* Outcome of a call.                                                      *)
(***************************************************************************)
Outcome(op, h, tok, at, ok, out, err, stage, data, hit, dec) ==
    [op |-> op, h |-> h, tok |-> tok, at |-> at, ok |-> ok, out |-> out, err |-> err,
     stage |-> stage, data |-> data, hit |-> hit, dec |-> dec]

NoCall == Outcome("none", 0, EmptyStr, 0, TRUE, FALSE, "none", 0, NoData, FALSE, FALSE)

(***************************************************************************)
(* The Cache specification: one Cache driven by set / get / has.           *)
(***************************************************************************)
\* keys: '' and one string of 4 * i characters for each i up to the capacity floor
CacheKeys == {EmptyStr} \cup {Str(TRUE, 4 * i, 0, "unparseable", {}) : i \in 1..MinMaxSize}
CacheVal(n) == [t |-> "str", n |-> n]
\* the (value, ttl) arguments of set
SetArgs ==
    {<<CacheVal(1), NoTTL>>, <<CacheVal(2), TTL(0)>>, <<CacheVal(2), TTL(-100)>>,
     <<CacheVal(3), TTL(2)>>}
DefaultTTLs == {NoTTL, TTL(1000)}

\* one more call, within the budget of the behaviour
Called == calls < MaxCalls /\ calls' = calls + 1
CacheCalled == calls < MaxCacheCalls /\ calls' = calls + 1

Later(S, t) == {u \in S : u > t}
\* the earliest instant of S after t
NextIn(S, t) == CHOOSE u \in Later(S, t) : \A w \in Later(S, t) : u <= w

Tick ==
    /\ Later(Instants, now) # {}
    /\ now' = NextIn(Instants, now)
    /\ UNCHANGED <<cfg, sealed, wire, vcache, pcache, cache, calls, last>>

CachePhases == {0, 1, 2}

CacheInstants == {t \in StartNow..MaxCacheNow : (t % MsPerSec) \in CachePhases}

CTick ==
    /\ Later(CacheInstants, now) # {}
    /\ now' = NextIn(CacheInstants, now)
    /\ UNCHANGED <<cfg, sealed, wire, vcache, pcache, cache, calls, last>>

CSet(key, value, ttl) ==
    /\ cache' = CacheSet(cache, key, value, ttl, now)
    /\ last' = Outcome("set", 0, key, now, TRUE, FALSE, "none", 0, value, FALSE, FALSE)
    /\ CacheCalled
    /\ UNCHANGED <<now, cfg, sealed, wire, vcache, pcache>>

CGet(key) ==
    /\ LET r == CacheGet(cache, key, now)
       IN  /\ cache' = r.cache
           /\ last' = Outcome("get", 0, key, now, TRUE, r.found, "none", 0,
                              IF r.found THEN cache.entries[r.at].data ELSE NoData,
                              r.found, FALSE)
    /\ CacheCalled
    /\ UNCHANGED <<now, cfg, sealed, wire, vcache, pcache>>

CHas(key) ==
    /\ LET r == CacheHas(cache, key, now)
       IN  /\ cache' = r.cache
           /\ last' = Outcome("has", 0, key, now, TRUE, r.found, "none", 0, NoData,
                              r.found, FALSE)
    /\ CacheCalled
    /\ UNCHANGED <<now, cfg, sealed, wire, vcache, pcache>>

NoHandlers == [h \in {} |-> 0]

CacheInit ==
    /\ now = StartNow
    /\ cfg = NoHandlers
    /\ sealed = {}
    /\ wire = {}
    /\ vcache = NoHandlers
    /\ pcache = NoHandlers
    /\ \E d \in DefaultTTLs : cache = NewCache(1, d)
    /\ calls = 0
    /\ last = NoCall

CacheNext ==
    \/ CTick
    \/ \E k \in CacheKeys, a \in SetArgs : CSet(k, a[1], a[2])
    \/ \E k \in CacheKeys : CGet(k)
    \/ \E k \in CacheKeys : CHas(k)

CacheSpec == CacheInit /\ [][CacheNext]_vars

(***************************************************************************)
(* The handler SecureJWT.  cfg[h] holds the private fields of handler h,   *)
(* pcache[h] and vcache[h] its payload and verify caches.                  *)
(***************************************************************************)
\* the secret 'aaaaaaaa', as character codes
SecretA == [i \in 1..8 |-> 97]
\* the secret 'bbbbbbbb'
SecretB == [i \in 1..8 |-> 98]

\* Algorithms.getRandomBytes(32): the salts the model draws
Salt7 == [i \in 1..SaltLen |-> 7]
Salt9 == [i \in 1..SaltLen |-> 9]
Salts == {Salt7, Salt9}

\* Algorithms.getRandomBytes(getIVLength()): the first IV byte the model draws
IvSeeds == {171}

V100 == <<1, 0, 0>>
V200 == <<2, 0, 0>>

Opt(secret, keyDerivation, algorithm, expireInMs, version) ==
    [secret |-> secret, keyDerivation |-> keyDerivation, algorithm |-> algorithm,
     expireInMs |-> expireInMs, version |-> version, cached |-> 1]

\* the options a single handler is built with: expireIn '1ms' and '2s'
OptA == Opt(SecretA, "basic", "aes-256-gcm", 1, V100)
OptB == Opt(SecretA, "pbkdf2", "chacha20-poly1305", 2 * MsPerSec, V100)

\* new SecureJWT(options): the private fields; salt is the random salt drawn
\* by the key derivation
Construct(o, salt) ==
    [secret |-> GenerateSecret(o.keyDerivation, o.secret, salt),
     keyDerivation |-> o.keyDerivation, algorithm |-> o.algorithm,
     expireInMs |-> o.expireInMs, version |-> o.version,
     options |-> o]

\* new Cache(options.cached ?? 1000, this.#expireInMs), with the capacity
\* floor as a parameter
HandlerCacheWith(floor, o) == NewCacheWith(floor, o.cached, TTL(o.expireInMs))

\* ... under the scaled capacity floor
HandlerCache(o) == HandlerCacheWith(MinMaxSize, o)

\* an expiry that rounds the lifetime up to whole seconds
SignExp_RoundedUp(expireInMs, iat) ==
    iat + Max(1, (expireInMs + MsPerSec - 1) \div MsPerSec)

\* exp = now + Math.max(1, Math.floor(this.#expireInMs / 1000))
SignExp(expireInMs, iat) == iat + Max(1, expireInMs \div MsPerSec)

\* the same for a lifetime kept as [sec, ms]: its floor(... / 1000) is sec
SignExpOf(lifetime, iat) == iat + Max(1, lifetime.sec)

\* a check that refuses an expiry of exactly the maximum
ValidateExpiration_Strict(exp, maxExp) == exp < maxExp

\* ErrorHandler.validateExpiration: exp > maxExp is refused
ValidateExpiration(exp, maxExp) == exp <= maxExp

\* a sign that refuses a payload of exactly the maximum size
SignError_AtLimit(c, data, t) ==
    LET iat == NowSec(t)
        exp == SignExp(c.expireInMs, iat)
    IN  IF data.t \in {"null", "undefined"} THEN "ValidationError"
        ELSE IF data.t \in {"string", "accented"} /\ data.n = 0 THEN "ValidationError"
        ELSE IF ~ValidateExpiration(exp, iat + YearSec) THEN "ValidationError"
        ELSE IF PayloadJSON(data, exp, iat, c.version).bytes >= MaxPayloadBytes
        THEN "PayloadTooLargeError"
        ELSE IF ~ValidateKeyLength(KeyOf(c.secret)) THEN "EncryptionError"
        ELSE "none"

\* the error sign stops with, "none" when it returns a token
SignError(c, data, t) ==
    LET iat == NowSec(t)
        exp == SignExp(c.expireInMs, iat)
    IN  IF data.t \in {"null", "undefined"} THEN "ValidationError"
        ELSE IF data.t \in {"string", "accented"} /\ data.n = 0 THEN "ValidationError"
        ELSE IF ~ValidateExpiration(exp, iat + YearSec) THEN "ValidationError"
        ELSE IF PayloadJSON(data, exp, iat, c.version).bytes > MaxPayloadBytes
        THEN "PayloadTooLargeError"
        ELSE IF ~ValidateKeyLength(KeyOf(c.secret)) THEN "EncryptionError"
        ELSE "none"

\* SecureJWT.encrypt of the payload of data at time t, with an IV of ivByte
SignSeal(c, sl, data, ivByte, t) ==
    LET iat == NowSec(t)
        exp == SignExp(c.expireInMs, iat)
    IN  Seal(sl, KeyOf(c.secret), [i \in 1..IVLength(c.algorithm) |-> ivByte],
             c.version, PayloadJSON(data, exp, iat, c.version))

\* the token string sign builds around an encryption s
TokenOf(s) ==
    EnvToken(HexEncode(s.ct), HexEncode(s.iv), HexEncode(s.tag),
             s.pt.exp, s.pt.iat, s.pt.version)

\* the token strings sign has returned
Issued == {TokenOf(s) : s \in sealed}

(***************************************************************************)
(* Token strings made by others than sign: altered copies of issued        *)
(* tokens, and strings that are no token at all.                           *)
(***************************************************************************)
\* the hex characters the model replaces ch by: the digit of the next value
\* and, for a letter, the same digit in the other letter case
Replacements(ch) ==
    {HexLower[((NibbleOf(ch) + 1) % 16) + 1]}
        \cup (IF NibbleOf(ch) >= 10 /\ ch = HexLower[NibbleOf(ch) + 1]
              THEN {HexUpper[NibbleOf(ch) - 9]} ELSE {})
        \cup (IF NibbleOf(ch) >= 10 /\ ch # HexLower[NibbleOf(ch) + 1]
              THEN {HexLower[NibbleOf(ch) + 1]} ELSE {})

\* tok with character pos of one hex field replaced by ch
ReplaceChar(tok, field, pos, ch) ==
    EnvToken(IF field = "encrypted" THEN [tok.encrypted EXCEPT ![pos] = ch] ELSE tok.encrypted,
             IF field = "iv" THEN [tok.iv EXCEPT ![pos] = ch] ELSE tok.iv,
             IF field = "tag" THEN [tok.tag EXCEPT ![pos] = ch] ELSE tok.tag,
             tok.exp, tok.iat, tok.version)

HexFields == {"encrypted", "iv", "tag"}

\* every copy of tok with one hex character replaced
Tampered(tok) ==
    UNION {{ReplaceChar(tok, f, pos, ch) : ch \in Replacements(tok[f][pos])} :
              f \in HexFields, pos \in 1..MaxTamperPos}

\* tok with another version, another expiry or another issue time in its
\* envelope
Relabelled(tok) ==
    {EnvToken(tok.encrypted, tok.iv, tok.tag, tok.exp, tok.iat, v) : v \in {V200}}
        \cup {EnvToken(tok.encrypted, tok.iv, tok.tag, tok.exp + 1, tok.iat, tok.version)}
        \cup {EnvToken(tok.encrypted, tok.iv, tok.tag, tok.exp, tok.iat + 1, tok.version)}

Forgeable == Garbage \cup UNION {Tampered(tok) \cup Relabelled(tok) : tok \in Issued}

\* the token strings a caller can pass
Tokens == Issued \cup Forgeable

\* the caller passes tok, within the number of token strings it holds
Presented(tok) ==
    /\ tok \in wire \/ Cardinality(wire) < MaxWire
    /\ wire' = wire \cup {tok}

\* the data sign is called with
DataInputs == {Obj(7), NaN, Null, StrOf(MaxPayloadBytes)}

\* a sign that records the token it returns as verified
Sign_Caching(h, data, ivByte) ==
    /\ Called
    /\ \E err \in {SignError(cfg[h], data, now)} :
          IF err = "none"
          THEN \E s \in {SignSeal(cfg[h], sealed, data, ivByte, now)} :
                  \E tok \in {TokenOf(s)} :
                      /\ s \in sealed \/ Cardinality(sealed) < MaxSealed
                      /\ Presented(tok)
                      /\ sealed' = sealed \cup {s}
                      /\ vcache' = [vcache EXCEPT ![h] =
                                        CacheSet(@, tok, TRUE, TTL(cfg[h].expireInMs), now)]
                      /\ last' = Outcome("sign", h, tok, now, TRUE, TRUE, "none", 0, data,
                                         FALSE, FALSE)
          ELSE /\ UNCHANGED <<sealed, wire, vcache>>
               /\ last' = Outcome("sign", h, EmptyStr, now, FALSE, FALSE, err, 0, data,
                                  FALSE, FALSE)
    /\ UNCHANGED <<now, cfg, pcache, cache>>

\* sign(data)
Sign(h, data, ivByte) ==
    /\ Called
    /\ \E err \in {SignError(cfg[h], data, now)} :
          IF err = "none"
          THEN \E s \in {SignSeal(cfg[h], sealed, data, ivByte, now)} :
                  \E tok \in {TokenOf(s)} :
                      /\ s \in sealed \/ Cardinality(sealed) < MaxSealed
                      /\ Presented(tok)
                      /\ sealed' = sealed \cup {s}
                      /\ last' = Outcome("sign", h, tok, now, TRUE, TRUE, "none", 0, data,
                                         FALSE, FALSE)
          ELSE /\ UNCHANGED <<sealed, wire>>
               /\ last' = Outcome("sign", h, EmptyStr, now, FALSE, FALSE, err, 0, data,
                                  FALSE, FALSE)
    /\ UNCHANGED <<now, cfg, vcache, pcache, cache>>

Answer(c, ok, out, err, stage, data, hit, dec) ==
    [cache |-> c, ok |-> ok, out |-> out, err |-> err, stage |-> stage, data |-> data,
     hit |-> hit, dec |-> dec]

\* a catch that lets a DecryptionError through
VerifyCatches_Leaky(err) == err # "DecryptionError"

\* catch { ... } of verify: every error is caught
VerifyCatches(err) == TRUE

\* a verify that does not mind the exp/iat comparison
VerifyMiss_Lenient(vc, tok, t, r) ==
    IF r.err = "none" \/ r.stage = 9
    THEN Answer(CacheSet(vc, tok, TRUE, TTL(Max(0, tok.exp * MsPerSec - t)), t),
                TRUE, TRUE, "none", 0, NoData, FALSE, r.dec)
    ELSE Answer(CacheSet(vc, tok, FALSE, TTL(0), t),
                TRUE, FALSE, "none", r.stage, NoData, FALSE, r.dec)

\* verify past the cache: the pipeline has left with r
VerifyMiss(vc, tok, t, r) ==
    IF r.err = "none"
    THEN Answer(CacheSet(vc, tok, TRUE, TTL(Max(0, r.exp * MsPerSec - t)), t),
                TRUE, TRUE, "none", 0, NoData, FALSE, r.dec)
    ELSE IF VerifyCatches(r.err)
    THEN Answer(CacheSet(vc, tok, FALSE, TTL(0), t),
                TRUE, FALSE, "none", r.stage, NoData, FALSE, r.dec)
    ELSE Answer(vc, FALSE, FALSE, r.err, r.stage, NoData, FALSE, r.dec)

\* verify after this.#verifyCache.has(token) was true and get has left with g
VerifyGot(c, g, cached, sl, tok, t) ==
    IF g.found
    THEN Answer(g.cache, TRUE, cached, "none", 0, NoData, TRUE, FALSE)
    ELSE VerifyMiss(g.cache, tok, t, Pipeline(c, sl, tok, t))

\* verify after this.#verifyCache.has(token) has left with h1
VerifyHas(c, h1, sl, tok, t) ==
    IF h1.found
    THEN VerifyGot(c, CacheGet(h1.cache, tok, t), h1.cache.entries[h1.at].data, sl, tok, t)
    ELSE VerifyMiss(h1.cache, tok, t, Pipeline(c, sl, tok, t))

\* verify(token) of a handler with fields c and verify cache vc at time t
VerifyCall(c, vc, sl, tok, t) == VerifyHas(c, CacheHas(vc, tok, t), sl, tok, t)

\* verify(token)
Verify(h, tok) ==
    /\ Called
    /\ Presented(tok)
    /\ \E r \in {VerifyCall(cfg[h], vcache[h], sealed, tok, now)} :
          /\ vcache' = [vcache EXCEPT ![h] = r.cache]
          /\ last' = Outcome("verify", h, tok, now, r.ok, r.out, r.err, r.stage, NoData,
                             r.hit, r.dec)
    /\ UNCHANGED <<now, cfg, sealed, pcache, cache>>

\* a verifyStrict that consults and populates the verify cache
VerifyStrict_Cached(h, tok) ==
    /\ Called
    /\ Presented(tok)
    /\ \E r \in {VerifyCall(cfg[h], vcache[h], sealed, tok, now)} :
          /\ vcache' = [vcache EXCEPT ![h] = r.cache]
          /\ last' = Outcome("verifyStrict", h, tok, now, r.out, FALSE,
                             IF r.out THEN "none" ELSE "ValidationError", r.stage,
                             NoData, r.hit, r.dec)
    /\ pcache' = pcache
    /\ UNCHANGED <<now, cfg, sealed, cache>>

\* verifyStrict has no catch: whatever is thrown inside leaves as it is
StrictRethrows(err) == err

\* verifyStrict(token), under a fault
VerifyStrictUnder(h, tok, fault) ==
    /\ Called
    /\ Presented(tok)
    /\ \E r \in {PipelineUnder(cfg[h], sealed, tok, now, fault)} :
          last' = Outcome("verifyStrict", h, tok, now, r.err = "none", FALSE,
                          StrictRethrows(r.err), r.stage, NoData, FALSE, r.dec)
    /\ vcache' = vcache
    /\ pcache' = pcache
    /\ UNCHANGED <<now, cfg, sealed, cache>>

\* verifyStrict(token)
VerifyStrict(h, tok) == VerifyStrictUnder(h, tok, NoFault)

\* the catch of decode: these errors are rethrown as they are, any other
\* becomes a ValidationError
DecodeRethrows(err) ==
    IF err \in {"ValidationError", "DecryptionError", "TokenExpiredError",
                "VersionMismatchError"}
    THEN err
    ELSE "ValidationError"

\* a decode that records its failures, as verify does
DecodeMiss_CachesFailure(pc, tok, t, r) ==
    IF r.err = "none"
    THEN Answer(CacheSet(pc, tok, r.data, TTL(Max(0, r.exp * MsPerSec - t)), t),
                TRUE, FALSE, "none", 0, r.data, FALSE, r.dec)
    ELSE Answer(CacheSet(pc, tok, Null, TTL(0), t),
                FALSE, FALSE, DecodeRethrows(r.err), r.stage, NoData, FALSE, r.dec)

\* decode past the cache: the pipeline has left with r
DecodeMiss(pc, tok, t, r) ==
    IF r.err = "none"
    THEN Answer(CacheSet(pc, tok, r.data, TTL(Max(0, r.exp * MsPerSec - t)), t),
                TRUE, FALSE, "none", 0, r.data, FALSE, r.dec)
    ELSE Answer(pc, FALSE, FALSE, DecodeRethrows(r.err), r.stage, NoData, FALSE, r.dec)

\* decode after this.#payloadCache.has(token) was true and get has left with g
DecodeGot(c, g, cached, sl, tok, t, fault) ==
    IF g.found /\ cached # NoData
    THEN Answer(g.cache, TRUE, FALSE, "none", 0, cached, TRUE, FALSE)
    ELSE DecodeMiss(g.cache, tok, t, PipelineUnder(c, sl, tok, t, fault))

\* decode after this.#payloadCache.has(token) has left with h1
DecodeHas(c, h1, sl, tok, t, fault) ==
    IF h1.found
    THEN DecodeGot(c, CacheGet(h1.cache, tok, t), h1.cache.entries[h1.at].data, sl, tok, t,
                   fault)
    ELSE DecodeMiss(h1.cache, tok, t, PipelineUnder(c, sl, tok, t, fault))

\* decode(token) under a fault.  Cache.has reads the clock when it holds an
\* entry for the key, before it changes anything; what Date.now throws there
\* is caught by decode.
DecodeCallUnder(c, pc, sl, tok, t, fault) ==
    IF fault = "clock" /\ IndexOf(pc.entries, tok) # 0
    THEN Answer(pc, FALSE, FALSE, DecodeRethrows("Error"), 0, NoData, FALSE, FALSE)
    ELSE DecodeHas(c, CacheHas(pc, tok, t), sl, tok, t, fault)

\* decode(token) of a handler with fields c and payload cache pc at time t
DecodeCall(c, pc, sl, tok, t) == DecodeCallUnder(c, pc, sl, tok, t, NoFault)

\* a decode of a handler whose two caches are one object
Decode_Shared(h, tok) ==
    /\ Called
    /\ Presented(tok)
    /\ \E r \in {DecodeCall(cfg[h], pcache[h], sealed, tok, now)} :
          /\ pcache' = [pcache EXCEPT ![h] = r.cache]
          /\ vcache' = [vcache EXCEPT ![h] = r.cache]
          /\ last' = Outcome("decode", h, tok, now, r.ok, FALSE, r.err, r.stage, r.data,
                             r.hit, r.dec)
    /\ UNCHANGED <<now, cfg, sealed, cache>>

\* decode(token), under a fault
DecodeUnder(h, tok, fault) ==
    /\ Called
    /\ Presented(tok)
    /\ \E r \in {DecodeCallUnder(cfg[h], pcache[h], sealed, tok, now, fault)} :
          /\ pcache' = [pcache EXCEPT ![h] = r.cache]
          /\ last' = Outcome("decode", h, tok, now, r.ok, FALSE, r.err, r.stage, r.data,
                             r.hit, r.dec)
    /\ UNCHANGED <<now, cfg, sealed, vcache, cache>>

\* decode(token)
Decode(h, tok) == DecodeUnder(h, tok, NoFault)

(***************************************************************************)
(* The handler specification: one handler, built at StartNow.              *)
(***************************************************************************)
Built(hs, o, salt) ==
    /\ cfg = [h \in hs |-> Construct(o[h], salt[h])]
    /\ vcache = [h \in hs |-> HandlerCache(o[h])]
    /\ pcache = [h \in hs |-> HandlerCache(o[h])]

Init ==
    /\ now = StartNow
    /\ \E b \in {<<OptA, Salt7>>, <<OptB, Salt9>>} : Built({1}, <<b[1]>>, <<b[2]>>)
    /\ sealed = {}
    /\ wire = {}
    /\ cache = NewCache(1, NoTTL)
    /\ calls = 0
    /\ last = NoCall

\* one call, with a token string of toks where it takes one
Call(toks) ==
    \/ \E h \in DOMAIN cfg, data \in DataInputs, ivByte \in IvSeeds : Sign(h, data, ivByte)
    \/ \E h \in DOMAIN cfg, tok \in toks : Verify(h, tok)
    \/ \E h \in DOMAIN cfg, tok \in toks : VerifyStrict(h, tok)
    \/ \E h \in DOMAIN cfg, tok \in toks : Decode(h, tok)

\* callers pass the tokens sign returned, and strings that are no token
Next ==
    \/ Tick
    \/ Call(Issued \cup Garbage)

Spec == Init /\ [][Next]_vars

(***************************************************************************)
(* The forgery specification: the handler is also passed altered copies of *)
(* the tokens it issued; the clock is read at whole seconds.               *)
(***************************************************************************)
Seconds == {t \in StartNow..MaxNow : t % MsPerSec = 0}

SecTick ==
    /\ Later(Seconds, now) # {}
    /\ now' = NextIn(Seconds, now)
    /\ UNCHANGED <<cfg, sealed, wire, vcache, pcache, cache, calls, last>>

ForgeNext ==
    \/ SecTick
    \/ Call(Tokens)

ForgeSpec == Init /\ [][ForgeNext]_vars

(***************************************************************************)
(* The pair specification: two handlers built from options that agree on   *)
(* the secret, the algorithm and the key-derivation mode; each draws its   *)
(* own salt.  The second handler's version is the first one's, or another. *)
(***************************************************************************)
KeyDerivations == {"basic", "pbkdf2"}

PairInit ==
    /\ now = StartNow
    /\ \E kd \in KeyDerivations, s1 \in Salts, s2 \in Salts, v2 \in {V100, V200},
          secret2 \in {SecretA, SecretB} :
          Built({1, 2},
                <<Opt(SecretA, kd, "aes-256-gcm", 1, V100), Opt(secret2, kd, "aes-256-gcm", 1, v2)>>,
                <<s1, s2>>)
    /\ sealed = {}
    /\ wire = {}
    /\ cache = NewCache(1, NoTTL)
    /\ calls = 0
    /\ last = NoCall

PairNext ==
    \/ SecTick
    \/ Call(Issued)

PairSpec == PairInit /\ [][PairNext]_vars

(***************************************************************************)
(* The signing specification: one handler, built with one of several       *)
(* expireIn values, that signs.                                            *)
(***************************************************************************)
\* parsetimeToMs of '1ms', '500ms', '1s', '1500ms', '2s' and '2999ms'
ExpireIns == {1, 500, MsPerSec, 1500, 2 * MsPerSec, 2999}

SignInit ==
    /\ now = StartNow
    /\ \E ms \in ExpireIns :
          Built({1}, <<Opt(SecretA, "basic", "aes-256-gcm", ms, V100)>>, <<Salt7>>)
    /\ sealed = {}
    /\ wire = {}
    /\ cache = NewCache(1, NoTTL)
    /\ calls = 0
    /\ last = NoCall

\* strings of 8000 and 9000 'x', the longest string of 'x' whose payload
\* fits and the next one, and strings of 4000 and 4100 'é'
SizeInputs ==
    {StrOf(8000), StrOf(9000), StrOf(MaxPayloadBytes - 45), StrOf(MaxPayloadBytes - 44),
     StrOfAccented(4000), StrOfAccented(4100)}

SignNext ==
    \/ Tick
    \/ \E h \in DOMAIN cfg, data \in DataInputs \cup SizeInputs, ivByte \in IvSeeds :
          Sign(h, data, ivByte)

SignSpec == SignInit /\ [][SignNext]_vars

(***************************************************************************)
(* The fault specification: a call of verifyStrict or decode may also run  *)
(* while a platform call throws; the clock is read at whole seconds.       *)
(***************************************************************************)
FaultyCall(toks) ==
    \/ \E h \in DOMAIN cfg, tok \in toks, fault \in Faults : VerifyStrictUnder(h, tok, fault)
    \/ \E h \in DOMAIN cfg, tok \in toks, fault \in Faults : DecodeUnder(h, tok, fault)

FaultNext ==
    \/ SecTick
    \/ Call(Issued \cup Garbage)
    \/ FaultyCall(Issued \cup Garbage)

FaultSpec == Init /\ [][FaultNext]_vars

(***************************************************************************)
(* The warm specification: the handler has signed {userId: 7} at StartNow  *)
(* and decoded the token at once, so that its payload cache holds an entry *)
(* when the calls of the behaviour begin; calls counts those calls.        *)
(***************************************************************************)
\* the encryption of that first sign
WarmSeal(c) == SignSeal(c, {}, Obj(7), 171, StartNow)

\* what that first decode left with
WarmDecode(c, o) ==
    DecodeCall(c, HandlerCache(o), {WarmSeal(c)}, TokenOf(WarmSeal(c)), StartNow)

WarmBuilt(c, o, r) ==
    /\ cfg = <<c>>
    /\ vcache = <<HandlerCache(o)>>
    /\ pcache = <<r.cache>>
    /\ sealed = {WarmSeal(c)}
    /\ wire = {TokenOf(WarmSeal(c))}
    /\ last = Outcome("decode", 1, TokenOf(WarmSeal(c)), StartNow, r.ok, FALSE, r.err,
                      r.stage, r.data, r.hit, r.dec)

WarmInit ==
    /\ now = StartNow
    /\ \E b \in {<<OptA, Salt7>>, <<OptB, Salt9>>} :
          WarmBuilt(Construct(b[1], b[2]), b[1], WarmDecode(Construct(b[1], b[2]), b[1]))
    /\ cache = NewCache(1, NoTTL)
    /\ calls = 0

WarmSpec == WarmInit /\ [][Next]_vars

(***************************************************************************)
(* Properties.                                                             *)
(***************************************************************************)
\* the last call was op, by a handler, on the token string sign built around s
LastOn(op, s) == last.op = op /\ last.tok = TokenOf(s)

\* the last call rejected its token: verify returned false, or verifyStrict
\* or decode raised err
Rejected(err) ==
    /\ last.op = "verify" => last.ok /\ ~last.out
    /\ last.op \in {"verifyStrict", "decode"} => ~last.ok /\ last.err = err

\* stages 1 and 2 pass
WellFormed(tok, t) ==
    /\ ValidateToken(tok)
    /\ ValidateTokenIntegrity(tok)
    /\ ValidateJSONParse(tok)
    /\ ValidateTokenDataIntegrity(tok, t)
    /\ IsValidTokenData(tok)

\* a value JSON represents as it is
JsonSafe(d) == d.t \in {"object", "string", "accented", "number", "boolean", "array"}

\* C1: verify returns a boolean and never raises, whatever the token string
\* (empty, malformed, expired, wrong-version, tampered or valid) and whatever
\* the caches hold; when the pipeline fails, at any stage, it returns false.
C1_VerifyNeverRaises ==
    last.op = "verify" =>
        /\ last.ok
        /\ last.err = "none"
        /\ last.out \in BOOLEAN
        /\ last.stage # 0 => last.out = FALSE

\* verify has answered false on a token whose decryption failed
C1_Witness == last.op = "verify" /\ last.stage = 5 /\ last.ok /\ ~last.out

\* C2: a token the handler signed for a valid data value is accepted by
\* that handler at every time up to the token's expiry, whatever calls came
\* in between: verify returns true and decode returns the signed data.
C2_RoundTrip ==
    \A s \in sealed :
        (/\ last.tok = TokenOf(s)
         /\ s.key = KeyOf(cfg[last.h].secret)
         /\ JsonSafe(s.pt.src)
         /\ NowSec(last.at) <= s.pt.exp)
        => /\ last.op = "verify" => last.ok /\ last.out
           /\ last.op = "decode" => last.ok /\ last.data = s.pt.src

\* decode has returned the signed object during the last second of the
\* token's validity
C2_Witness ==
    \E s \in sealed :
        /\ LastOn("decode", s)
        /\ last.ok
        /\ last.data = s.pt.src
        /\ s.pt.src = Obj(7)
        /\ NowSec(last.at) = s.pt.exp

\* the hex fields of a and b decode to different bytes
BytesDiffer(a, b) ==
    \/ HexDecode(a.encrypted) # HexDecode(b.encrypted)
    \/ HexDecode(a.iv) # HexDecode(b.iv)
    \/ HexDecode(a.tag) # HexDecode(b.tag)

\* C3 as stated: a signed token with any single hex character of encrypted,
\* iv or tag replaced by a different hex character is rejected: verify
\* returns false, verifyStrict and decode raise DecryptionError.
C3_AnyReplacementRejected ==
    \A s \in sealed :
        last.tok \in Tampered(TokenOf(s)) => Rejected("DecryptionError")

\* C3 amended: ... replaced by a hex digit of a different value (not the
\* same digit in the other letter case), and presented while the token is
\* unexpired, is rejected: verify returns false, verifyStrict and decode raise
\* DecryptionError.
C3_ValueReplacementRejected ==
    \A s \in sealed :
        (/\ last.tok \in Tampered(TokenOf(s))
         /\ BytesDiffer(last.tok, TokenOf(s))
         /\ NowSec(last.at) <= last.tok.exp)
        => Rejected("DecryptionError")

\* decode has raised DecryptionError on a token whose iv had one digit
\* replaced by a digit of another value
C3_Witness ==
    \E s \in sealed :
        /\ last.op = "decode"
        /\ last.tok \in Tampered(TokenOf(s))
        /\ HexDecode(last.tok.iv) # HexDecode(TokenOf(s).iv)
        /\ ~last.ok
        /\ last.err = "DecryptionError"

C5_VersionMismatchRaises ==
    (/\ last.op = "verifyStrict"
     /\ WellFormed(last.tok, last.at)
     /\ last.tok.version # cfg[last.h].version)
    => ~last.ok /\ last.err = "VersionMismatchError"

\* a handler of version 2.0.0 has raised VersionMismatchError on a token
\* signed under 1.0.0
C5_Witness ==
    /\ last.op = "verifyStrict"
    /\ last.tok.version = V100
    /\ cfg[last.h].version = V200
    /\ ~last.ok
    /\ last.err = "VersionMismatchError"


\* C6: the number of stored entries never exceeds the effective capacity
\* max(floor, maxSize), whatever keys (the empty string included) and TTLs
\* are used.
C6_SizeWithinCapacity == Len(cache.entries) <= cache.maxSize

\* handler h holds the key and version the encryption s was made with
Signed(h, s) == s.key = KeyOf(cfg[h].secret) /\ s.aad = cfg[h].version

\* C7 as stated: of two successive verify calls of one handler on a valid
\* token, unexpired at both, both return true and the second is answered
\* from the verify cache, without decryption.
C7_SecondVerifyCached ==
    [][(/\ calls' = calls + 1
        /\ last.op = "verify"
        /\ last'.op = "verify"
        /\ last'.h = last.h
        /\ last'.tok = last.tok
        /\ \E s \in sealed : last.tok = TokenOf(s) /\ Signed(last.h, s)
        /\ NowSec(last.at) <= last.tok.exp
        /\ NowSec(last'.at) <= last.tok.exp)
       => last.out /\ last'.out /\ last'.hit /\ ~last'.dec]_vars

\* C7 amended: ... both return true, and the second is answered from the
\* verify cache, without decryption, when it comes no later than the start
\* of the token's expiry second (exp * 1000 ms), or no later than 1 ms after
\* a first call that ran the pipeline.
C7_SecondVerifyCachedUntilExp ==
    [][(/\ calls' = calls + 1
        /\ last.op = "verify"
        /\ last'.op = "verify"
        /\ last'.h = last.h
        /\ last'.tok = last.tok
        /\ \E s \in sealed : last.tok = TokenOf(s) /\ Signed(last.h, s)
        /\ NowSec(last.at) <= last.tok.exp
        /\ NowSec(last'.at) <= last.tok.exp
        /\ \/ last'.at <= last.tok.exp * MsPerSec
           \/ ~last.hit /\ last'.at <= last.at + MinTTL)
       => last.out /\ last'.out /\ last'.hit /\ ~last'.dec]_vars

\* verify has answered true from the cache, without decryption, at the
\* very start of the token's expiry second
C7_Witness ==
    /\ last.op = "verify"
    /\ last.tok \in Issued
    /\ last.at = last.tok.exp * MsPerSec
    /\ last.out
    /\ last.hit
    /\ ~last.dec

\* the options agree on secret, version, algorithm and key-derivation mode
SameOptions(o1, o2) ==
    /\ o1.secret = o2.secret
    /\ o1.version = o2.version
    /\ o1.algorithm = o2.algorithm
    /\ o1.keyDerivation = o2.keyDerivation

\* C8: a token signed by a handler is accepted, while unexpired, by any
\* other handler built with the same secret, version, algorithm and
\* key-derivation mode: verify returns true, decode returns the signed data.
C8_AcceptedByTwin ==
    \A s \in sealed, h1 \in DOMAIN cfg :
        (/\ last.tok = TokenOf(s)
         /\ last.op \in {"verify", "decode"}
         /\ h1 # last.h
         /\ Signed(h1, s)
         /\ SameOptions(cfg[h1].options, cfg[last.h].options)
         /\ JsonSafe(s.pt.src)
         /\ NowSec(last.at) <= s.pt.exp)
        => /\ last.op = "verify" => last.ok /\ last.out
           /\ last.op = "decode" => last.ok /\ last.data = s.pt.src

\* the entries of cache c under key
EntriesOf(c, key) == {c.entries[i] : i \in {j \in 1..Len(c.entries) : c.entries[j].key = key}}

\* C9 as stated: a false recorded by a failed verify is never what a later
\* verify call answers from.
C9_FalseNeverServed == ~(last.op = "verify" /\ last.hit /\ ~last.out)

\* C9 amended: a failed verify returns false and records false under the
\* cache's minimum TTL of 1 ms; a later verify on that token is answered
\* from the recorded false only up to 1 ms after the failure, every later
\* call re-runs the pipeline.
C9_FalseServedOneMs ==
    /\ (last.op = "verify" /\ ~last.hit /\ last.stage # 0) =>
          /\ ~last.out
          /\ \E e \in EntriesOf(vcache[last.h], last.tok) :
                e.data = FALSE /\ e.createdAt = last.at /\ e.expiresAt = last.at + MinTTL
    /\ (last.op = "verify" /\ last.hit /\ ~last.out) =>
          \E e \in EntriesOf(vcache[last.h], last.tok) :
                e.data = FALSE /\ last.at <= e.createdAt + MinTTL

\* verify has answered false from the cache 1 ms after the failure
C9_Witness ==
    /\ last.op = "verify"
    /\ last.hit
    /\ ~last.out
    /\ \E e \in EntriesOf(vcache[last.h], last.tok) : last.at = e.createdAt + MinTTL

\* C10: verifyStrict neither reads nor modifies either cache: its outcome is
\* that of the pipeline alone, and both caches hold the same entries, with
\* the same accessCount values, after the call as before.
C10_StrictLeavesCaches ==
    [][(calls' = calls + 1 /\ last'.op = "verifyStrict")
       => /\ vcache' = vcache
          /\ pcache' = pcache
          /\ ~last'.hit
          /\ last'.err = Pipeline(cfg[last'.h], sealed, last'.tok, now).err
          /\ last'.ok = (last'.err = "none")]_vars

\* verifyStrict has raised on a token for which the verify cache holds a
\* live true
C10_Witness ==
    /\ last.op = "verifyStrict"
    /\ ~last.ok
    /\ \E e \in EntriesOf(vcache[last.h], last.tok) : e.data = TRUE /\ last.at <= e.expiresAt

\* the keys cache c holds
KeysOf(c) == {c.entries[i].key : i \in 1..Len(c.entries)}

\* C11: decode adds an entry to the payload cache only when the whole
\* pipeline succeeds, and the entry stores the recovered data; a decode call
\* that raises adds no entry, and leaves none for its token.
C11_DecodeCachesSuccessOnly ==
    [][(calls' = calls + 1 /\ last'.op = "decode")
       => /\ ~last'.ok =>
                /\ EntriesOf(pcache'[last'.h], last'.tok) = {}
                /\ KeysOf(pcache'[last'.h]) \subseteq KeysOf(pcache[last'.h])
          /\ KeysOf(pcache'[last'.h]) \subseteq KeysOf(pcache[last'.h]) \cup {last'.tok}
          /\ (last'.ok /\ ~last'.hit) =>
                /\ Pipeline(cfg[last'.h], sealed, last'.tok, now).err = "none"
                /\ \E e \in EntriesOf(pcache'[last'.h], last'.tok) :
                      /\ e.data = last'.data
                      /\ e.data = Pipeline(cfg[last'.h], sealed, last'.tok, now).data
                      /\ e.createdAt = now]_vars

\* decode has raised after decryption failed and has left no entry for that
\* token string, while the payload cache holds the entry of another token
C11_Witness ==
    /\ last.op = "decode"
    /\ ~last.ok
    /\ last.stage = 5
    /\ EntriesOf(pcache[last.h], last.tok) = {}
    /\ pcache[last.h].entries # <<>>

C13_CachesIndependent ==
    [][/\ (calls' = calls + 1 /\ last'.op = "verify") => pcache' = pcache
       /\ (calls' = calls + 1 /\ last'.op = "decode") => vcache' = vcache
       /\ vcache' # vcache => last'.op = "verify" /\ calls' = calls + 1
       /\ pcache' # pcache => last'.op = "decode" /\ calls' = calls + 1]_vars

\* a verify call has brought the verify cache to its capacity and counted
\* accesses there, while the payload cache holds its one entry, still with
\* the accessCount decode left it with
C13_Witness ==
    /\ last.op = "verify"
    /\ calls = MaxCalls
    /\ Len(vcache[last.h].entries) >= vcache[last.h].maxSize
    /\ \E e \in EntriesOf(vcache[last.h], last.tok) : e.createdAt = last.at
    /\ Len(pcache[last.h].entries) = 1
    /\ pcache[last.h].entries[1].accessCount = 1
    /\ pcache[last.h].entries[1].createdAt = StartNow

\* stage j, taken by itself, lets the token string through; p is what
\* decryption yields
StagePasses(j, c, p, tok, t) ==
    CASE j = 1 -> ValidateToken(tok) /\ ValidateTokenIntegrity(tok)
      [] j = 2 -> /\ ValidateJSONParse(tok)
                  /\ ValidateTokenDataIntegrity(tok, t)
                  /\ IsValidTokenData(tok)
      [] j = 3 -> ValidateVersionCompatibility(tok.version, c.version) = "none"
      [] j = 4 -> ~Expired(tok.exp, t)
      [] j = 5 -> p.err = "none"
      [] j = 6 -> ValidateJSONParse(p.pt) /\ IsValidPayloadData(p.pt)
      [] j = 7 -> ValidateVersionCompatibility(p.pt.version, tok.version) = "none"
      [] j = 8 -> ~Expired(p.pt.exp, t)
      [] j = 9 -> ValidateTokenTimestamps(p.pt.exp, tok.exp, p.pt.iat, tok.iat)

\* the kind of error stage j raises
StageError(j) ==
    CASE j \in {1, 2, 6, 9} -> "ValidationError"
      [] j \in {3, 7} -> "VersionMismatchError"
      [] j \in {4, 8} -> "TokenExpiredError"
      [] j = 5 -> "DecryptionError"

\* the last call ran the pipeline and stopped at the first stage that fails
StoppedAtFirst(p) ==
    /\ last.stage \in 1..9
    /\ last.err = StageError(last.stage)
    /\ ~StagePasses(last.stage, cfg[last.h], p, last.tok, last.at)
    /\ \A j \in 1..(last.stage - 1) : StagePasses(j, cfg[last.h], p, last.tok, last.at)

\* C14: verifyStrict, and decode past its cache, raise the error of the
\* earliest failing stage in the order 1 token string and base64 format,
\* 2 envelope parse and fields, 3 envelope version, 4 envelope expiry,
\* 5 decryption, 6 payload structure, 7 payload version, 8 payload expiry,
\* 9 exp/iat equality, and return only when every stage passes; so a
\* wrong-version expired token raises VersionMismatchError and an expired
\* tampered token TokenExpiredError.
C14_EarliestStageRaises ==
    (last.op \in {"verifyStrict", "decode"} /\ ~last.hit) =>
        /\ ~last.ok => StoppedAtFirst(Decrypt(cfg[last.h], sealed, last.tok))
        /\ last.ok =>
              \A j \in 1..9 :
                  StagePasses(j, cfg[last.h], Decrypt(cfg[last.h], sealed, last.tok),
                              last.tok, last.at)
        /\ (/\ WellFormed(last.tok, last.at)
            /\ last.tok.version # cfg[last.h].version
            /\ Expired(last.tok.exp, last.at)) => last.err = "VersionMismatchError"
        /\ (/\ WellFormed(last.tok, last.at)
            /\ last.tok.version = cfg[last.h].version
            /\ Expired(last.tok.exp, last.at)
            /\ \E s \in sealed : last.tok \in Tampered(TokenOf(s)))
           => last.err = "TokenExpiredError"

\* decode has raised VersionMismatchError on a token that carries another
\* version and has expired as well
C14_Witness ==
    /\ last.op = "decode"
    /\ ~last.ok
    /\ last.err = "VersionMismatchError"
    /\ last.tok.version # cfg[last.h].version
    /\ Expired(last.tok.exp, last.at)

\* verifyStrict has raised TokenExpiredError on an expired token one hex
\* digit of which was replaced by a digit of another value
C14_WitnessTampered ==
    /\ last.op = "verifyStrict"
    /\ last.err = "TokenExpiredError"
    /\ \E s \in sealed : last.tok \in Tampered(TokenOf(s)) /\ BytesDiffer(last.tok, TokenOf(s))

\* the token string of the last call decrypts, under the handler called, to
\* a payload whose exp or iat is not the envelope's
Spliced ==
    /\ last.op \in {"verify", "verifyStrict", "decode"}
    /\ WellFormed(last.tok, last.at)
    /\ \E d \in {Decrypt(cfg[last.h], sealed, last.tok)} :
          /\ d.err = "none"
          /\ d.pt.exp # last.tok.exp \/ d.pt.iat # last.tok.iat

Taxonomy == {"ValidationError", "DecryptionError", "TokenExpiredError", "VersionMismatchError"}

\* C16: verifyStrict and decode raise only ValidationError, DecryptionError,
\* TokenExpiredError or VersionMismatchError: what a platform call throws
\* unexpectedly during either operation leaves as a ValidationError, never as
\* the raw error, and never without an error.
C16_OnlyTaxonomyErrors ==
    (last.op \in {"verifyStrict", "decode"} /\ ~last.ok) => last.err \in Taxonomy

\* cache c holds an entry for key that has not expired at time t
Live(c, key, t) == \E e \in EntriesOf(c, key) : t <= e.expiresAt

EarliestMinimal(es, i, t) ==
    /\ \A j \in 1..Len(es) : Score(es[i], t) <= Score(es[j], t)
    /\ \A j \in 1..(i - 1) : Score(es[i], t) < Score(es[j], t)

\* C19: a set that inserts a new key into a cache at capacity first removes
\* exactly one stored entry: one whose score accessCount + (now - createdAt) / 1000
\* is minimal among the stored entries and, of those with that score, the
\* earliest inserted.
C19_EvictsEarliestMinimal ==
    [][(/\ calls' = calls + 1
        /\ last'.op = "set"
        /\ Len(cache.entries) >= cache.maxSize
        /\ last'.tok \notin KeysOf(cache))
       => \E i \in 1..Len(cache.entries) :
             /\ EarliestMinimal(cache.entries, i, now)
             /\ Len(cache'.entries) = Len(cache.entries)
             /\ SubSeq(cache'.entries, 1, Len(cache.entries) - 1) = RemoveAt(cache.entries, i)
             /\ cache'.entries[Len(cache.entries)].key = last'.tok]_vars

\* C20: eviction discards old entries first: of two stored entries with the
\* same accessCount, a set never evicts the one created later while it keeps
\* the one created earlier.
C20_OlderEvictedFirst ==
    [][(/\ calls' = calls + 1
        /\ last'.op = "set"
        /\ Len(cache.entries) >= cache.maxSize
        /\ last'.tok \notin KeysOf(cache))
       => \A i, j \in 1..Len(cache.entries) :
             (/\ cache.entries[i].accessCount = cache.entries[j].accessCount
              /\ cache.entries[i].createdAt < cache.entries[j].createdAt)
             => ~(/\ cache.entries[j].key \notin KeysOf(cache')
                  /\ cache.entries[i].key \in KeysOf(cache'))]_vars

\* the step is a call of op on the stand-alone cache
CacheStep(ops) == calls' = calls + 1 /\ last'.op \in ops

\* C21: a set on a key the cache already stores evicts nothing, also when
\* the cache is at capacity: the cache holds the same keys, in the same
\* order, after the call, and every other entry is as it was.
C21_OverwriteEvictsNothing ==
    [][(CacheStep({"set"}) /\ last'.tok \in KeysOf(cache))
       => /\ KeysOf(cache') = KeysOf(cache)
          /\ Len(cache'.entries) = Len(cache.entries)
          /\ \A i \in 1..Len(cache.entries) :
                /\ cache'.entries[i].key = cache.entries[i].key
                /\ cache.entries[i].key # last'.tok => cache'.entries[i] = cache.entries[i]
                /\ cache.entries[i].key = last'.tok =>
                      /\ cache'.entries[i].data = last'.data
                      /\ cache'.entries[i].createdAt = now
                      /\ cache'.entries[i].accessCount = 1]_vars

\* set has overwritten the first entry of a cache at capacity, some time
\* after the second was stored, and both are there
C21_Witness ==
    /\ last.op = "set"
    /\ Len(cache.entries) >= cache.maxSize
    /\ cache.entries[1].key = last.tok
    /\ cache.entries[1].createdAt = last.at
    /\ cache.entries[2].createdAt < last.at

\* the ttl arguments a set of value can have been called with
TtlsOf(value) == {a[2] : a \in {b \in SetArgs : b[1] = value}}

\* max(1, ttl ?? defaultTTL)
EffectiveTTL(ttl, defaultTTL) ==
    IF ttl = NoTTL THEN (IF defaultTTL < 1 THEN 1 ELSE defaultTTL)
    ELSE IF ttl[1] < 1 THEN 1 ELSE ttl[1]

C23_MissIffPastExpiry ==
    [][CacheStep({"get", "has"}) =>
          /\ \A e \in EntriesOf(cache, last'.tok) :
                IF now > e.expiresAt
                THEN ~last'.out /\ EntriesOf(cache', last'.tok) = {}
                ELSE /\ last'.out
                     /\ last'.op = "get" => last'.data = e.data
                     /\ \E f \in EntriesOf(cache', last'.tok) :
                           /\ f.data = e.data
                           /\ f.expiresAt = e.expiresAt
                           /\ f.createdAt = e.createdAt
          /\ EntriesOf(cache, last'.tok) = {} =>
                ~last'.out /\ cache' = cache]_vars

\* has has answered true at the very instant the entry expires, and the
\* entry is kept
C23_Witness ==
    /\ last.op = "has"
    /\ last.out
    /\ \E e \in EntriesOf(cache, last.tok) : e.expiresAt = last.at /\ e.createdAt < last.at

\* C24: a get or has that hits a live entry raises that entry's accessCount
\* by exactly 1 and changes nothing else in the cache; one that misses
\* changes the accessCount of no entry.
C24_HitCountsOnce ==
    [][CacheStep({"get", "has"}) =>
          IF last'.out
          THEN \E i \in 1..Len(cache.entries) :
                  /\ cache.entries[i].key = last'.tok
                  /\ cache' = [cache EXCEPT !.entries[i].accessCount = @ + 1]
          ELSE \A i \in 1..Len(cache'.entries) :
                  \E j \in 1..Len(cache.entries) : cache'.entries[i] = cache.entries[j]]_vars

\* has has hit an entry that a get had hit before: its accessCount is 3
C24_Witness ==
    /\ last.op = "has"
    /\ last.out
    /\ calls = 3
    /\ \E e \in EntriesOf(cache, last.tok) : e.accessCount = 3

\* C25: nothing sweeps the cache: an entry leaves it only by a get or has
\* on its own key after it has expired, or as the one entry evicted by a set
\* of a new key at capacity; an entry under another key than the one a call
\* is made on stays as it is, expired or not, and the clock alone changes
\* nothing.
C25_NoSweeping ==
    [][/\ calls' = calls => cache' = cache
       /\ \A i \in 1..Len(cache.entries) :
             IF cache.entries[i].key \in KeysOf(cache')
             THEN cache.entries[i].key # last'.tok =>
                     EntriesOf(cache', cache.entries[i].key) = {cache.entries[i]}
             ELSE \/ /\ CacheStep({"get", "has"})
                     /\ last'.tok = cache.entries[i].key
                     /\ now > cache.entries[i].expiresAt
                  \/ /\ CacheStep({"set"})
                     /\ last'.tok \notin KeysOf(cache)
                     /\ Len(cache.entries) >= cache.maxSize
                     /\ Len(cache'.entries) = Len(cache.entries)]_vars

\* a get on one key has left an expired entry under another key in a cache
\* at capacity
C25_Witness ==
    /\ last.op = "get"
    /\ Len(cache.entries) >= cache.maxSize
    /\ \E i \in 1..Len(cache.entries) :
          cache.entries[i].key # last.tok /\ last.at > cache.entries[i].expiresAt

(***************************************************************************)
(* The time parser (TimeParser.ts).  A time string is the sequence of its  *)
(* characters.  A number of milliseconds is kept as [sec, ms], standing    *)
(* for 1000 * sec + ms: one year of milliseconds exceeds 32 bits.          *)
(***************************************************************************)
DigitChars == <<"0", "1", "2", "3", "4", "5", "6", "7", "8", "9">>
IsDigit(ch) == \E i \in 1..Len(DigitChars) : DigitChars[i] = ch
DigitVal(ch) == (CHOOSE i \in 1..Len(DigitChars) : DigitChars[i] = ch) - 1

\* the white space String.prototype.trim removes
IsSpace(ch) == ch \in {" ", "\t", "\n"}

RECURSIVE TrimStart(_)
TrimStart(str) ==
    IF Len(str) > 0 /\ IsSpace(Head(str)) THEN TrimStart(Tail(str)) ELSE str

RECURSIVE TrimEnd(_)
TrimEnd(str) ==
    IF Len(str) > 0 /\ IsSpace(str[Len(str)])
    THEN TrimEnd(SubSeq(str, 1, Len(str) - 1))
    ELSE str

\* timeString.trim()
Trim(str) == TrimEnd(TrimStart(str))

\* length of the run of digits str starts with: what (\d+) takes
RECURSIVE DigitRun(_)
DigitRun(str) ==
    IF Len(str) > 0 /\ IsDigit(Head(str)) THEN 1 + DigitRun(Tail(str)) ELSE 0

\* parseInt(digits, 10)
RECURSIVE ParseInt(_)
ParseInt(ds) ==
    IF Len(ds) = 0 THEN 0
    ELSE 10 * ParseInt(SubSeq(ds, 1, Len(ds) - 1)) + DigitVal(ds[Len(ds)])

\* (ms|s|m|h|d|M|y)
TimeUnits == {<<"m", "s">>, <<"s">>, <<"m">>, <<"h">>, <<"d">>, <<"M">>, <<"y">>}

Wide(sec, ms) == [sec |-> sec, ms |-> ms]
WideTimes(n, w) ==
    Wide(n * w.sec + ((n * w.ms) \div MsPerSec), (n * w.ms) % MsPerSec)
WideGT(a, b) == a.sec > b.sec \/ (a.sec = b.sec /\ a.ms > b.ms)

\* the milliseconds of one unit, as the cases of timeToMs multiply them
Multiplier(unit) ==
    CASE unit = <<"m", "s">> -> Wide(0, 1)
      [] unit = <<"s">> -> Wide(1, 0)
      [] unit = <<"m">> -> Wide(60, 0)
      [] unit = <<"h">> -> Wide(60 * 60, 0)
      [] unit = <<"d">> -> Wide(24 * 60 * 60, 0)
      [] unit = <<"M">> -> Wide(30 * 24 * 60 * 60, 0)
      [] unit = <<"y">> -> Wide(YearSec, 0)

Parsed(err, value, unit) == [err |-> err, value |-> value, unit |-> unit]
Millis(err, ms) == [err |-> err, ms |-> ms]

\* timeToMs({value, unit})
TimeToMs(value, unit) ==
    IF unit \in TimeUnits THEN Millis("none", WideTimes(value, Multiplier(unit)))
    ELSE Millis("TimeFormatError", Wide(0, 0))

\* parseTimeString: /^(\d+)(ms|s|m|h|d|M|y)$/, then value <= 0 is refused
ParseTimeString(str) ==
    LET n == DigitRun(str)
        unit == SubSeq(str, n + 1, Len(str))
    IN  IF n = 0 \/ unit \notin TimeUnits THEN Parsed("TimeFormatError", 0, <<>>)
        ELSE IF ParseInt(SubSeq(str, 1, n)) <= 0 THEN Parsed("TimeFormatError", 0, <<>>)
        ELSE Parsed("none", ParseInt(SubSeq(str, 1, n)), unit)

\* a caller's argument: a string, or a value that is none
TimeStr(str) == [t |-> "string", s |-> str]
NotAString == [t |-> "number", s |-> <<>>]

\* ErrorHandler.validateTimeString
ValidateTimeString(x) == x.t = "string" /\ Len(x.s) > 0

\* a parser that refuses one year itself
ParsetimeToMs_YearRefused(x) ==
    IF ~ValidateTimeString(x) THEN Millis("TimeFormatError", Wide(0, 0))
    ELSE LET p == ParseTimeString(Trim(x.s))
         IN  IF p.err # "none" THEN Millis(p.err, Wide(0, 0))
             ELSE IF ~WideGT(Wide(YearSec, 0), TimeToMs(p.value, p.unit).ms)
             THEN Millis("TimeFormatError", Wide(0, 0))
             ELSE TimeToMs(p.value, p.unit)

\* parsetimeToMs(timeString)
ParsetimeToMs(x) ==
    IF ~ValidateTimeString(x) THEN Millis("TimeFormatError", Wide(0, 0))
    ELSE LET p == ParseTimeString(Trim(x.s))
         IN  IF p.err # "none" THEN Millis(p.err, Wide(0, 0))
             ELSE IF WideGT(TimeToMs(p.value, p.unit).ms, Wide(YearSec, 0))
             THEN Millis("TimeFormatError", Wide(0, 0))
             ELSE TimeToMs(p.value, p.unit)

(***************************************************************************)
(* Construction (index.ts:106-126): the checks of the constructor in their *)
(* order, then the private fields and the two caches.                      *)
(***************************************************************************)
\* a check of the secret without the upper limit on its length
ValidateSecret_NoUpper(secret) ==
    IF Len(secret) < MinSecretLen THEN "SecretKeyError"
    ELSE IF \E i \in 1..Len(secret) : secret[i] < 32 \/ secret[i] = 127
    THEN "SecretKeyError"
    ELSE "none"

\* ErrorHandler.validateSecret of a string, given as its character codes
ValidateSecret(secret) ==
    IF Len(secret) < MinSecretLen THEN "SecretKeyError"
    ELSE IF Len(secret) > MaxSecretLen THEN "SecretKeyError"
    ELSE IF \E i \in 1..Len(secret) : secret[i] < 32 \/ secret[i] = 127
    THEN "SecretKeyError"
    ELSE "none"

\* options.cached: <<>> when left out, <<n>> the integer n, <<n, d>> a
\* number that is no integer
Integer(n) == <<n>>
Fraction(n, d) == <<n, d>>
Undefined == <<>>

\* ErrorHandler.validateCacheSize
ValidateCacheSize(cached) ==
    IF Len(cached) # 1 THEN "ValidationError"
    ELSE IF cached[1] < MinCached THEN "ValidationError"
    ELSE IF cached[1] > MaxCached THEN "ValidationError"
    ELSE "none"

\* an option left out
LeftOut == "undefined"

\* Algorithms.getInstance(algorithm): the error it raises, "none" when it
\* returns a strategy
GetInstance(algorithm) ==
    IF algorithm = "aes-256-gcm" THEN "none"
    ELSE IF algorithm = "chacha20-poly1305" THEN "none"
    ELSE "EncryptionError"

\* options.algorithm ?? 'aes-256-gcm'
AlgorithmOf(raw) == IF raw.algorithm = LeftOut THEN "aes-256-gcm" ELSE raw.algorithm

\* options.keyDerivation ?? 'basic'
KeyDerivationOf(raw) == IF raw.keyDerivation = LeftOut THEN "basic" ELSE raw.keyDerivation

\* the error new SecureJWT(raw) stops with, "none" when it returns; the
\* key-derivation modes and the version passed are valid ones
ConstructError(raw) ==
    IF raw.expireIn.t # "string" THEN "ValidationError"
    ELSE IF ValidateSecret(raw.secret) # "none" THEN ValidateSecret(raw.secret)
    ELSE IF raw.cached # Undefined /\ ValidateCacheSize(raw.cached) # "none"
    THEN ValidateCacheSize(raw.cached)
    ELSE IF GetInstance(AlgorithmOf(raw)) # "none" THEN GetInstance(AlgorithmOf(raw))
    ELSE ParsetimeToMs(raw.expireIn).err

\* the options after their defaults; the version is left out by the callers
\* modelled
Defaulted(raw) ==
    [Opt(raw.secret, KeyDerivationOf(raw), AlgorithmOf(raw),
         ParsetimeToMs(raw.expireIn).ms.sec * MsPerSec + ParsetimeToMs(raw.expireIn).ms.ms,
         V100)
     EXCEPT !.cached = IF raw.cached = Undefined THEN DefaultCached ELSE raw.cached[1]]

SecretOf(n, code) == [i \in 1..n |-> code]
\* 'aaaaaaaa' with one other character in it
SecretWith(code) == [SecretOf(MinSecretLen, 97) EXCEPT ![3] = code]

\* secrets of 7, 8, 255 and 256 letters, and secrets of 8 characters with a
\* unit separator, a space, a tilde, DEL, U+0080, e-acute or a CJK ideograph
BuildSecrets ==
    {SecretOf(n, 97) : n \in {MinSecretLen - 1, MinSecretLen, 20, MaxSecretLen,
                              MaxSecretLen + 1}}
    \cup {SecretWith(code) : code \in {0, 31, 32, 126, 127, 128, 233, 20013}}

BuildCached ==
    {Undefined, Integer(0), Integer(1), Integer(500), Integer(999), Integer(1000),
     Integer(1001), Integer(10000), Integer(10001), Fraction(3, 2)}

BuildExpireIns ==
    {TimeStr(<<"1", "m", "s">>), TimeStr(<<"2", "s">>), TimeStr(<<"1", "h">>),
     TimeStr(<<"1", ".", "5", "m">>), TimeStr(<<"2", "y">>),
     TimeStr(<<"3", "6", "6", "d">>), NotAString}

CacheSizes == {-5, 0, 1, 999, 1000, 1001, 5000}
CacheTTLs == {NoTTL, TTL(-100), TTL(0), TTL(1), TTL(2), TTL(60000)}

TimeInputs ==
    {TimeStr(str) : str \in
        {<<"1", "m", "s">>, <<"5", "s">>, <<"2", "m">>, <<"1", "h">>, <<"1", "d">>,
         <<"1", "M">>, <<"1", "y">>, <<"1", "5", "0", "0", "m", "s">>,
         <<"3", "6", "5", "d">>, <<"3", "6", "6", "d">>, <<"1", "2", "M">>,
         <<"1", "3", "M">>, <<"2", "y">>, <<"0", "1", "0", "s">>,
         <<"3", "1", "5", "3", "6", "0", "0", "0", "s">>,
         <<"3", "1", "5", "3", "6", "0", "0", "1", "s">>,
         <<"1", ".", "5", "m">>, <<"2", ".", "5", "h">>, <<"0", ".", "5", "s">>,
         <<"0", ".", "0", "m">>, <<"1", ".", "m">>, <<".", "5", "m">>,
         <<"1", ".", "5", ".", "5", "m">>,
         <<"i", "n", "v">>, <<"1">>, <<"m">>, <<"1", "x">>, <<>>, <<"-", "1", "m">>,
         <<"0", "m">>, <<"0", "0", "s">>, <<" ", "1", "m", " ">>, <<" ">>,
         <<"1", " ", "m">>, <<"1", "m", "m">>, <<"1", "M", "S">>, <<"1", "m", "s", "s">>}}
    \cup {NotAString}

\* the names getInstance is called with
AlgorithmNames ==
    {"aes-128-gcm", "aes-256-gcm", "chacha20-poly1305", "aes-192-gcm", "AES-256-GCM", ""}

\* the secrets of the handlers built with an algorithm and a key derivation
KeySecrets == {SecretOf(MinSecretLen, 97), SecretOf(MinSecretLen, 98), SecretOf(MaxSecretLen, 97)}

RawOpt(secret, expireIn, cached, algorithm, keyDerivation) ==
    [secret |-> secret, expireIn |-> expireIn, cached |-> cached,
     algorithm |-> algorithm, keyDerivation |-> keyDerivation]

BuildOutcome(op, arg, err, value) == [op |-> op, arg |-> arg, err |-> err, value |-> value]

BuildCalled == calls < MaxBuildCalls /\ calls' = calls + 1

\* new Cache(maxSize, defaultTTL)
NewCacheCall(maxSize, defaultTTL) ==
    /\ BuildCalled
    /\ cache' = NewCacheWith(CapacityFloor, maxSize, defaultTTL)
    /\ last' = BuildOutcome("Cache", [maxSize |-> maxSize, defaultTTL |-> defaultTTL],
                            "none", Wide(0, 0))
    /\ UNCHANGED <<now, cfg, sealed, wire, vcache, pcache>>

\* new SecureJWT(raw), the key derivation drawing salt
NewSecureJWT(raw, salt) ==
    /\ BuildCalled
    /\ \E err \in {ConstructError(raw)} :
          /\ IF err = "none"
             THEN /\ cfg' = <<Construct(Defaulted(raw), salt)>>
                  /\ pcache' = <<HandlerCacheWith(CapacityFloor, Defaulted(raw))>>
                  /\ vcache' = <<HandlerCacheWith(CapacityFloor, Defaulted(raw))>>
             ELSE UNCHANGED <<cfg, pcache, vcache>>
          /\ last' = BuildOutcome("SecureJWT", raw, err, Wide(0, 0))
    /\ UNCHANGED <<now, sealed, wire, cache>>

\* parsetimeToMs(x)
ParseCall(x) ==
    /\ BuildCalled
    /\ last' = BuildOutcome("parsetimeToMs", x, ParsetimeToMs(x).err, ParsetimeToMs(x).ms)
    /\ UNCHANGED <<now, cfg, sealed, wire, vcache, pcache, cache>>

\* the clock readings, in seconds, at which a handler signs
SignIats == {1, 1793000000}

\* the expiry computation of sign (index.ts:187-190) in a handler whose
\* constructor was given expireIn x (index.ts:122), at second iat
SignExpiry(x, iat) ==
    /\ BuildCalled
    /\ last' = BuildOutcome("signExpiry", [expireIn |-> x, iat |-> iat],
                            IF ParsetimeToMs(x).err # "none" THEN ParsetimeToMs(x).err
                            ELSE IF ~ValidateExpiration(SignExpOf(ParsetimeToMs(x).ms, iat),
                                                        iat + YearSec)
                            THEN "ValidationError"
                            ELSE "none",
                            IF ParsetimeToMs(x).err # "none" THEN Wide(0, 0)
                            ELSE Wide(SignExpOf(ParsetimeToMs(x).ms, iat), 0))
    /\ UNCHANGED <<now, cfg, sealed, wire, vcache, pcache, cache>>

\* Algorithms.getInstance(algorithm)
GetInstanceCall(algorithm) ==
    /\ BuildCalled
    /\ last' = BuildOutcome("getInstance", algorithm, GetInstance(algorithm), Wide(0, 0))
    /\ UNCHANGED <<now, cfg, sealed, wire, vcache, pcache, cache>>

\* before any construction: no handler, and a Cache built with its defaults
BuildInit ==
    /\ now = StartNow
    /\ cfg = <<>>
    /\ vcache = <<>>
    /\ pcache = <<>>
    /\ sealed = {}
    /\ wire = {}
    /\ cache = NewCacheWith(CapacityFloor, DefaultCached, NoTTL)
    /\ calls = 0
    /\ last = BuildOutcome("none", <<>>, "none", Wide(0, 0))

BuildNext ==
    \/ \E maxSize \in CacheSizes, defaultTTL \in CacheTTLs : NewCacheCall(maxSize, defaultTTL)
    \/ \E secret \in BuildSecrets, expireIn \in BuildExpireIns, cached \in BuildCached :
          NewSecureJWT(RawOpt(secret, expireIn, cached, LeftOut, LeftOut), Salt7)
    \/ \E secret \in KeySecrets, algorithm \in AlgorithmNames \ {""},
          keyDerivation \in KeyDerivations, salt \in Salts :
          NewSecureJWT(RawOpt(secret, TimeStr(<<"1", "h">>), Undefined, algorithm, keyDerivation),
                       salt)
    \/ \E algorithm \in AlgorithmNames : GetInstanceCall(algorithm)
    \/ \E x \in TimeInputs : ParseCall(x)
    \/ \E x \in TimeInputs, iat \in SignIats : SignExpiry(x, iat)

BuildSpec == BuildInit /\ [][BuildNext]_vars

\* C26: a Cache constructed with any maxSize and defaultTTL has capacity
\* max(1000, maxSize) and default TTL max(1, defaultTTL) ms; a handler
\* constructed with an accepted cached of 1 to 999 has two caches of
\* capacity exactly 1000.
C26_CapacityFloor ==
    /\ last.op = "Cache" =>
          /\ cache.maxSize = (IF last.arg.maxSize > 1000 THEN last.arg.maxSize ELSE 1000)
          /\ cache.maxSize >= 1000
          /\ cache.defaultTTL =
                (IF last.arg.defaultTTL # NoTTL /\ last.arg.defaultTTL[1] > 1
                 THEN last.arg.defaultTTL[1] ELSE 1)
    /\ (/\ last.op = "SecureJWT"
        /\ last.err = "none"
        /\ last.arg.cached # Undefined
        /\ last.arg.cached[1] \in 1..999) =>
          pcache[1].maxSize = 1000 /\ vcache[1].maxSize = 1000

\* a handler has been constructed with cached: 999
C26_Witness ==
    /\ last.op = "SecureJWT"
    /\ last.err = "none"
    /\ last.arg.cached = Integer(999)
    /\ pcache[1].maxSize = 1000
    /\ vcache[1].maxSize = 1000

\* C27: sign raises PayloadTooLargeError exactly when the UTF-8 byte length
\* of the JSON payload {data, exp, iat, version} exceeds 8192, and nothing
\* has been encrypted when it does; a string of 9000 characters fails and
\* one of 8000 succeeds.
C27_PayloadTooLargeIffOver8192 ==
    [][(calls' = calls + 1 /\ last'.op = "sign") =>
          /\ (last'.err = "PayloadTooLargeError") <=>
                (/\ last'.data.t \notin {"null", "undefined"}
                 /\ PayloadJSON(last'.data, SignExp(cfg[last'.h].expireInMs, now \div 1000),
                                now \div 1000, cfg[last'.h].version).bytes > 8192)
          /\ last'.err = "PayloadTooLargeError" => ~last'.ok /\ sealed' = sealed
          /\ last'.data = StrOf(9000) => last'.err = "PayloadTooLargeError"
          /\ last'.data = StrOf(8000) =>
                last'.ok /\ last'.err = "none" /\ \E s \in sealed' : last'.tok = TokenOf(s)]_vars

\* sign has returned a token for a payload of exactly 8192 bytes
C27_Witness ==
    /\ last.op = "sign"
    /\ last.ok
    /\ \E s \in sealed : last.tok = TokenOf(s) /\ s.pt.bytes = 8192

\* sign has raised PayloadTooLargeError for a payload of 8193 bytes
C27_WitnessOver ==
    /\ last.op = "sign"
    /\ last.err = "PayloadTooLargeError"
    /\ last.data = StrOf(8148)
    /\ sealed = {}

\* C28: with options that are otherwise well typed, construction raises
\* SecretKeyError for every secret of fewer than 8 or more than 255
\* characters, and does not raise SecretKeyError for a secret of 8 to 255
\* printable ASCII characters.
C28_SecretLength ==
    (last.op = "SecureJWT" /\ last.arg.expireIn.t = "string") =>
        /\ (Len(last.arg.secret) < 8 \/ Len(last.arg.secret) > 255) =>
              last.err = "SecretKeyError"
        /\ (/\ Len(last.arg.secret) \in 8..255
            /\ \A i \in 1..Len(last.arg.secret) : last.arg.secret[i] \in 32..126) =>
              last.err # "SecretKeyError"

\* a handler has been constructed with a secret of 255 letters
C28_Witness ==
    /\ last.op = "SecureJWT"
    /\ last.err = "none"
    /\ Len(last.arg.secret) = 255
    /\ Len(cfg) = 1

\* a secret of 256 letters has been refused
C28_WitnessLong ==
    /\ last.op = "SecureJWT"
    /\ last.err = "SecretKeyError"
    /\ Len(last.arg.secret) = 256
    /\ Len(cfg) = 0

\* C29: construction accepts a secret only if each of its characters is
\* printable ASCII (codes 32 to 126): a secret of 8 to 255 characters with a
\* character outside that range raises SecretKeyError.
C29_OnlyPrintableASCII ==
    (/\ last.op = "SecureJWT"
     /\ last.arg.expireIn.t = "string"
     /\ Len(last.arg.secret) \in 8..255
     /\ \E i \in 1..Len(last.arg.secret) : last.arg.secret[i] \notin 32..126) =>
        last.err = "SecretKeyError"

\* C29, for the characters the check looks for: a secret with a control
\* character (code below 32) or DEL (127) raises SecretKeyError
C29_ControlCharsRefused ==
    (/\ last.op = "SecureJWT"
     /\ last.arg.expireIn.t = "string"
     /\ \E i \in 1..Len(last.arg.secret) :
           last.arg.secret[i] < 32 \/ last.arg.secret[i] = 127) =>
        last.err = "SecretKeyError"

\* the grammar ^(\d+(\.\d+)?)(ms|s|m|h|d|M|y)$: the digits before the point,
\* the digits after it (none without a point) and the unit, or no match
Shape(whole, frac, unit, ok) == [whole |-> whole, frac |-> frac, unit |-> unit, ok |-> ok]
DecimalShape(str) ==
    LET n == DigitRun(str)
        rest == SubSeq(str, n + 1, Len(str))
        k == IF Len(rest) > 0 /\ Head(rest) = "." THEN DigitRun(Tail(rest)) ELSE 0
        unit == IF k > 0 THEN SubSeq(rest, k + 2, Len(rest)) ELSE rest
    IN  Shape(SubSeq(str, 1, n), IF k > 0 THEN SubSeq(rest, 2, k + 1) ELSE <<>>, unit,
              n > 0 /\ unit \in TimeUnits)

RECURSIVE Pow10(_)
Pow10(k) == IF k = 0 THEN 1 ELSE 10 * Pow10(k - 1)

\* C30: parsetimeToMs accepts exactly the strings that, trimmed, match
\* ^(\d+(\.\d+)?)(ms|s|m|h|d|M|y)$ with a value above 0, decimals included,
\* and returns value x multiplier for them; every other input raises
\* TimeFormatError.
C30_AcceptsDecimalGrammar ==
    last.op = "parsetimeToMs" =>
        IF /\ last.arg.t = "string"
           /\ DecimalShape(Trim(last.arg.s)).ok
           /\ ParseInt(DecimalShape(Trim(last.arg.s)).whole
                       \o DecimalShape(Trim(last.arg.s)).frac) > 0
        THEN /\ last.err = "none"
             /\ WideTimes(Pow10(Len(DecimalShape(Trim(last.arg.s)).frac)), last.value) =
                   WideTimes(ParseInt(DecimalShape(Trim(last.arg.s)).whole
                                      \o DecimalShape(Trim(last.arg.s)).frac),
                             Multiplier(DecimalShape(Trim(last.arg.s)).unit))
        ELSE last.err = "TimeFormatError"

\* C30, for whole numbers of at most one year: such a string is accepted and
\* gives value x multiplier; a string that does not match the grammar, or
\* whose value is 0, raises TimeFormatError.
C30_WholeNumbersWithinYear ==
    last.op = "parsetimeToMs" =>
        IF /\ last.arg.t = "string"
           /\ DecimalShape(Trim(last.arg.s)).ok
           /\ ParseInt(DecimalShape(Trim(last.arg.s)).whole
                       \o DecimalShape(Trim(last.arg.s)).frac) > 0
        THEN (/\ DecimalShape(Trim(last.arg.s)).frac = <<>>
              /\ ~WideGT(WideTimes(ParseInt(DecimalShape(Trim(last.arg.s)).whole),
                                   Multiplier(DecimalShape(Trim(last.arg.s)).unit)),
                         Wide(YearSec, 0))) =>
                 /\ last.err = "none"
                 /\ last.value = WideTimes(ParseInt(DecimalShape(Trim(last.arg.s)).whole),
                                           Multiplier(DecimalShape(Trim(last.arg.s)).unit))
        ELSE last.err = "TimeFormatError"

\* '1.5m' has been refused
C30_DecimalRefused ==
    /\ last.op = "parsetimeToMs"
    /\ last.arg = TimeStr(<<"1", ".", "5", "m">>)
    /\ last.err = "TimeFormatError"

\* C31: parsetimeToMs raises TimeFormatError for every expression whose
\* value exceeds 365 days and returns 31536000000 ms for exactly 365 days
\* ('1y', '365d'); no handler is constructed from a longer lifetime.
C31_YearIsTheLimit ==
    /\ (/\ last.op = "parsetimeToMs"
        /\ last.arg.t = "string"
        /\ DecimalShape(Trim(last.arg.s)).ok) =>
          /\ WideGT(WideTimes(ParseInt(DecimalShape(Trim(last.arg.s)).whole
                                       \o DecimalShape(Trim(last.arg.s)).frac),
                              Multiplier(DecimalShape(Trim(last.arg.s)).unit)),
                    WideTimes(Pow10(Len(DecimalShape(Trim(last.arg.s)).frac)),
                              Wide(31536000, 0))) =>
                last.err = "TimeFormatError"
          /\ (/\ DecimalShape(Trim(last.arg.s)).frac = <<>>
              /\ WideTimes(ParseInt(DecimalShape(Trim(last.arg.s)).whole),
                           Multiplier(DecimalShape(Trim(last.arg.s)).unit))
                    = Wide(31536000, 0)) =>
                last.err = "none" /\ last.value = Wide(31536000, 0)
    /\ (last.op = "SecureJWT" /\ last.arg.expireIn \in {TimeStr(<<"2", "y">>),
                                                        TimeStr(<<"3", "6", "6", "d">>)}) =>
          last.err # "none"
    /\ (last.op = "SecureJWT" /\ last.err = "none") => Len(cfg) = 1
    /\ \A i \in 1..Len(cfg) : cfg[i].expireInMs \div 1000 <= 31536000

\* '365d' has been parsed to one year
C31_Witness ==
    /\ last.op = "parsetimeToMs"
    /\ last.arg = TimeStr(<<"3", "6", "5", "d">>)
    /\ last.err = "none"
    /\ last.value = Wide(31536000, 0)

\* '31536001s' has been refused
C31_WitnessOver ==
    /\ last.op = "parsetimeToMs"
    /\ last.arg = TimeStr(<<"3", "1", "5", "3", "6", "0", "0", "1", "s">>)
    /\ last.err = "TimeFormatError"

\* C39: in a handler that was constructed, sign never fails its
\* expiration-too-far check: exp = iat + max(1, floor(expiryMs / 1000)) is at
\* most iat + 31536000, since construction refuses a longer lifetime.
C39_ExpirationNeverTooFar ==
    (last.op = "signExpiry" /\ last.err # "TimeFormatError") =>
        /\ last.err = "none"
        /\ last.value.sec >= last.arg.iat + 1
        /\ last.value.sec <= last.arg.iat + 31536000

\* a handler of one year has signed: exp is exactly iat + 31536000
C39_Witness ==
    /\ last.op = "signExpiry"
    /\ last.err = "none"
    /\ last.arg.expireIn = TimeStr(<<"1", "y">>)
    /\ last.arg.iat = 1793000000
    /\ last.value.sec = last.arg.iat + 31536000

\* C34: verify never returns true, and decode never returns data, for a
\* token whose exp is smaller than floor(now / 1000) at the time of the
\* call, whether the call runs the pipeline or is answered from a cache.
C34_ExpiredNeverAccepted ==
    \A s \in sealed :
        (/\ last.op \in {"verify", "decode"}
         /\ last.tok = TokenOf(s)
         /\ s.pt.exp < last.at \div 1000)
        => /\ last.op = "verify" => ~last.out
           /\ last.op = "decode" => ~last.ok

\* C34, for the calls that run the pipeline: a call that is not answered
\* from a cache never accepts an expired token.
C34_PipelineRejectsExpired ==
    \A s \in sealed :
        (/\ last.op \in {"verify", "decode"}
         /\ ~last.hit
         /\ last.tok = TokenOf(s)
         /\ s.pt.exp < last.at \div 1000)
        => /\ last.op = "verify" => ~last.out
           /\ last.op = "decode" => ~last.ok

\* C33: getInstance returns a strategy for each of 'aes-128-gcm',
\* 'aes-256-gcm' and 'chacha20-poly1305' and raises EncryptionError for
\* every other name.
C33_ThreeAlgorithms ==
    last.op = "getInstance" =>
        IF last.arg \in {"aes-128-gcm", "aes-256-gcm", "chacha20-poly1305"}
        THEN last.err = "none"
        ELSE last.err = "EncryptionError"

\* C33, for the names the factory knows: 'aes-256-gcm' and
\* 'chacha20-poly1305' give a strategy, every name other than the three
\* raises EncryptionError
C33_TwoAlgorithms ==
    last.op = "getInstance" =>
        /\ last.arg \in {"aes-256-gcm", "chacha20-poly1305"} => last.err = "none"
        /\ last.arg \notin {"aes-128-gcm", "aes-256-gcm", "chacha20-poly1305"} =>
              last.err = "EncryptionError"

\* the key length the algorithm of a handler asks for
KeyLengthOf(algorithm) == IF algorithm = "aes-128-gcm" THEN 16 ELSE 32

\* C32: a handler configured with one of the three algorithms uses, for
\* encrypt and decrypt, the derived key buffer cut to exactly that
\* algorithm's getKeyLength() bytes: 16 for AES-128-GCM, 32 for AES-256-GCM
\* and ChaCha20-Poly1305.
C32_KeyCutToAlgorithmLength ==
    (/\ last.op = "SecureJWT"
     /\ last.arg.algorithm \in {"aes-128-gcm", "aes-256-gcm", "chacha20-poly1305"}
     /\ ValidateSecret(last.arg.secret) = "none"
     /\ last.arg.expireIn = TimeStr(<<"1", "h">>)
     /\ last.arg.cached = Undefined)
    => /\ last.err = "none"
       /\ Len(cfg) = 1
       /\ Len(KeyOf(cfg[1].secret)) = KeyLengthOf(last.arg.algorithm)

\* C32, for the two algorithms a handler can be built with: the key is the
\* first 32 bytes of the derived buffer
C32_KeyCutTo32 ==
    (/\ last.op = "SecureJWT"
     /\ last.err = "none")
    => /\ cfg[1].algorithm \in {"aes-256-gcm", "chacha20-poly1305"}
       /\ KeyOf(cfg[1].secret) = SubSeq(cfg[1].secret, 1, 32)
       /\ Len(KeyOf(cfg[1].secret)) = KeyLengthOf(cfg[1].algorithm)

\* C38: in every handler that was constructed, in either key-derivation
\* mode and with any accepted secret, the derived buffer has at least 32
\* bytes, the key cut from it has exactly 32, and sign does not fail with
\* the key-length EncryptionError.
C38_DerivedKeyLongEnough ==
    (last.op = "SecureJWT" /\ last.err = "none") =>
        /\ Len(cfg[1].secret) >= 32
        /\ Len(KeyOf(cfg[1].secret)) = 32
        /\ ValidateKeyLength(KeyOf(cfg[1].secret))
        /\ \A data \in DataInputs : SignError(cfg[1], data, now) # "EncryptionError"

\* a handler has been constructed in basic mode from a secret of 8
\* characters: its derived buffer has 40 bytes
C38_Witness ==
    /\ last.op = "SecureJWT"
    /\ last.err = "none"
    /\ last.arg.keyDerivation = "basic"
    /\ Len(last.arg.secret) = 8
    /\ Len(cfg[1].secret) = 40

\* a handler has been constructed in pbkdf2 mode: its derived buffer has 32
\* bytes
C38_WitnessPBKDF2 ==
    /\ last.op = "SecureJWT"
    /\ last.err = "none"
    /\ last.arg.keyDerivation = "pbkdf2"
    /\ Len(cfg[1].secret) = 32

\* C35: in basic mode the key depends on the secret: two handlers built
\* from different secrets, their key derivations having drawn the same salt
\* bytes, use different keys.
C35_KeyDependsOnSecret ==
    \A h1 \in DOMAIN cfg, h2 \in DOMAIN cfg :
        (/\ cfg[h1].keyDerivation = "basic"
         /\ cfg[h2].keyDerivation = "basic"
         /\ cfg[h1].options.secret # cfg[h2].options.secret
         /\ SubSeq(cfg[h1].secret, 1, 32) = SubSeq(cfg[h2].secret, 1, 32))
        => KeyOf(cfg[h1].secret) # KeyOf(cfg[h2].secret)

\* C37: at all times, the clock never going back, every entry stored in a
\* cache has accessCount >= 1, expiresAt >= createdAt + 1 and
\* createdAt <= now.
C37_EntryInvariant ==
    \A i \in 1..Len(cache.entries) :
        /\ cache.entries[i].accessCount >= 1
        /\ cache.entries[i].expiresAt >= cache.entries[i].createdAt + 1
        /\ cache.entries[i].createdAt <= now

\* the clock has passed an entry stored with a ttl of 0 or less, which has
\* been read since and is still stored
C37_Witness ==
    \E i \in 1..Len(cache.entries) :
        /\ cache.entries[i].createdAt < now
        /\ cache.entries[i].expiresAt = cache.entries[i].createdAt + 1
        /\ cache.entries[i].expiresAt < now
        /\ cache.entries[i].accessCount >= 2

(***************************************************************************)
(* Callers that change what decode returned.  decode stores payload.data   *)
(* in the payload cache and returns that same object (index.ts:372-373),   *)
(* and a hit returns the stored object itself (index.ts:333-337,           *)
(* Core.ts:159): an object the caller changes is changed in the cache.     *)
(***************************************************************************)
\* the caller sets userId of the object the last decode returned to n; it
\* is the object stored under the token while that entry is stored
MutateReturned(n) ==
    /\ last.op = "decode"
    /\ last.ok
    /\ last.data.t = "object"
    /\ last.data.n # n
    /\ IndexOf(pcache[last.h].entries, last.tok) # 0
    /\ pcache' = [pcache EXCEPT ![last.h].entries[IndexOf(pcache[last.h].entries, last.tok)].data
                                   = Obj(n)]
    /\ last' = Outcome("mutate", last.h, last.tok, now, TRUE, FALSE, "none", 0, Obj(n),
                       FALSE, FALSE)
    /\ UNCHANGED <<now, cfg, sealed, wire, vcache, cache, calls>>

AliasNext ==
    \/ Next
    \/ MutateReturned(8)

AliasSpec == Init /\ [][AliasNext]_vars

\* C36: every decode of an unexpired token returns the data that was
\* signed, also after the caller has changed an object an earlier decode
\* returned.
C36_DecodeReturnsSignedData ==
    \A s \in sealed :
        (/\ last.op = "decode"
         /\ last.ok
         /\ last.tok = TokenOf(s)
         /\ s.key = KeyOf(cfg[last.h].secret)
         /\ JsonSafe(s.pt.src))
        => last.data = s.pt.src

====
